---- MODULE Spec2Model ----
(***************************************************************************)
(* A model of the RDB snapshot parser of src/src/parser.rs.                *)
(*                                                                         *)
(* The input is a finite byte sequence.  A parser is a record holding the  *)
(* fields of RdbParser plus the locals of parse() that live across the     *)
(* opcode loop.  Every reader of the source is an operator from a parser   *)
(* record to a parser record; the `?` of the source is the rule that an    *)
(* operator leaves a parser whose status is not "run" unchanged.           *)
(***************************************************************************)
EXTENDS Integers, Sequences, FiniteSets, TLC

VARIABLES
    input,      \* the bytes behind RdbParser.input
    parser,     \* the parser under study (its filter is drawn in Init)
    twin        \* a second parser on the same input whose filter admits nothing

vars == <<input, parser, twin>>

(***************************************************************************)
(* Wire constants (crate::constants).                                      *)
(***************************************************************************)
RDB_MAGIC == <<82, 69, 68, 73, 83>>
SUPPORTED_MINIMUM == 2
SUPPORTED_MAXIMUM == 9

RDB_6BITLEN == 0
RDB_14BITLEN == 1
RDB_ENCVAL == 3

OP_AUX == 250
OP_RESIZEDB == 251
OP_EXPIRETIME_MS == 252
OP_EXPIRETIME == 253
OP_SELECTDB == 254
OP_EOF == 255

T_STRING == 0
T_LIST == 1
T_SET == 2
T_ZSET == 3
T_HASH == 4
T_ZSET_2 == 5
T_HASH_ZIPMAP == 9
T_LIST_ZIPLIST == 10
T_SET_INTSET == 11
T_ZSET_ZIPLIST == 12
T_HASH_ZIPLIST == 13
T_LIST_QUICKLIST == 14

ENC_INT8 == 0
ENC_INT16 == 1
ENC_INT32 == 2
ENC_LZF == 3

\* Option<u64>::None of last_expiretime (Some(x) is the eight bytes of x)
None == <<>>

(***************************************************************************)
(* Let(v, K) names a value for the rest of a definition: K(v), with v      *)
(* evaluated once, before K.  An operator that is handed a parser by a     *)
(* loop or by another reader takes it as p_ and names its value p.         *)
(***************************************************************************)
Let(v, K(_)) == CHOOSE r \in {K(x) : x \in {v}} : TRUE

(***************************************************************************)
(* Byte primitives over a byte sequence b and an offset pos (the number of *)
(* bytes already consumed).  A result is [ok, v, pos].                     *)
(***************************************************************************)
Got(v, pos) == [ok |-> TRUE, v |-> v, pos |-> pos]
Short(pos) == [ok |-> FALSE, v |-> 0, pos |-> pos]

Pow2(n) == 2 ^ n

read_u8(b, pos) ==
    IF pos < Len(b) THEN Got(b[pos + 1], pos + 1) ELSE Short(pos)

\* helper::read_exact: exactly n bytes or an error (n < 0 is a word of 2^31
\* or more, which no input of the model holds)
read_exact(b, pos, n) ==
    IF n >= 0 /\ pos + n <= Len(b) THEN Got(SubSeq(b, pos + 1, pos + n), pos + n)
    ELSE Short(pos)

\* Read::read on an in-memory source: as many of the n bytes as remain
read_some(b, pos, n) ==
    Let(IF pos + n <= Len(b) THEN n ELSE Len(b) - pos, LAMBDA k :
        [n |-> k, v |-> SubSeq(b, pos + 1, pos + k), pos |-> pos + k])

(***************************************************************************)
(* Fixed-width integers.  A 32-bit word is held as the i32 with the same   *)
(* bits, so a u32 of 2^31 or more appears as that value minus 2^32 (the    *)
(* model's arithmetic stays within 32 bits); a 64-bit unsigned value is    *)
(* held as its eight little-endian bytes.                                  *)
(***************************************************************************)
Reverse(s) == [i \in 1..Len(s) |-> s[Len(s) + 1 - i]]

RECURSIVE Horner(_, _)
Horner(acc, s) == IF s = <<>> THEN acc ELSE Horner(acc * 256 + s[1], Tail(s))

\* big-endian bytes as an unsigned and as a two's-complement number
Unsigned(be) == Horner(0, be)
Signed(be) ==
    IF be = <<>> THEN 0
    ELSE Horner(IF be[1] >= 128 THEN be[1] - 256 ELSE be[1], Tail(be))

\* the value of the bytes a read delivered
Decoded(r, F(_)) == IF r.ok THEN Got(F(r.v), r.pos) ELSE r

UnsignedLE(s) == Unsigned(Reverse(s))
SignedLE(s) == Signed(Reverse(s))

\* w - 1 on a u32 word that is not 0
Pred32(w) == IF w < -2147483647 THEN 2147483647 ELSE w - 1

read_u16LE(b, pos) == Decoded(read_exact(b, pos, 2), UnsignedLE)
read_u32LE(b, pos) == Decoded(read_exact(b, pos, 4), SignedLE)
read_u32BE(b, pos) == Decoded(read_exact(b, pos, 4), Signed)
read_iLE(b, pos, n) == Decoded(read_exact(b, pos, n), SignedLE)

\* the product of little-endian bytes and a small factor, on `width` bytes
RECURSIVE TimesLE(_, _, _, _)
TimesLE(le, factor, carry, width) ==
    IF width = 0 THEN <<>>
    ELSE Let((IF le = <<>> THEN 0 ELSE le[1] * factor) + carry, LAMBDA d :
             <<d % 256>> \o TimesLE(IF le = <<>> THEN <<>> ELSE Tail(le),
                                    factor, d \div 256, width - 1))

\* decimal ASCII text of an integer (i32/i64 to_string, helper::int_to_vec)
RECURSIVE Digits(_)
Digits(n) ==
    IF n < 10 THEN <<48 + n>> ELSE Append(Digits(n \div 10), 48 + (n % 10))

\* the digits of a negative number, without negating it (i32::MIN)
RECURSIVE NegDigits(_)
NegDigits(n) ==
    IF n % 10 = 0
    THEN IF n \div 10 = 0 THEN <<48>> ELSE Append(NegDigits(n \div 10), 48)
    ELSE IF (n \div 10) + 1 = 0 THEN <<58 - (n % 10)>>
    ELSE Append(NegDigits((n \div 10) + 1), 58 - (n % 10))

int_to_vec(n) == IF n < 0 THEN <<45>> \o NegDigits(n) ELSE Digits(n)

(***************************************************************************)
(* read_length_with_encoding: result [ok, v, enc, pos].                    *)
(***************************************************************************)
Length(ok, v, enc, pos) == [ok |-> ok, v |-> v, enc |-> enc, pos |-> pos]

\* a faulty variant: the 14-bit length without the shift
read_length_with_encoding_unshifted(b, pos) ==
    Let(read_u8(b, pos), LAMBDA enc_type :
        IF ~enc_type.ok THEN Length(FALSE, 0, FALSE, pos)
        ELSE IF enc_type.v \div 64 = RDB_ENCVAL
        THEN Length(TRUE, enc_type.v % 64, TRUE, enc_type.pos)
        ELSE IF enc_type.v \div 64 = RDB_6BITLEN
        THEN Length(TRUE, enc_type.v % 64, FALSE, enc_type.pos)
        ELSE IF enc_type.v \div 64 = RDB_14BITLEN
        THEN Let(read_u8(b, enc_type.pos), LAMBDA next_byte :
                 Length(next_byte.ok, next_byte.v, FALSE, next_byte.pos))
        ELSE Let(read_u32BE(b, enc_type.pos), LAMBDA length :
                 Length(length.ok, length.v, FALSE, length.pos)))

read_length_with_encoding(b, pos) ==
    Let(read_u8(b, pos), LAMBDA enc_type :
        IF ~enc_type.ok THEN Length(FALSE, 0, FALSE, pos)
        ELSE IF enc_type.v \div 64 = RDB_ENCVAL
        THEN Length(TRUE, enc_type.v % 64, TRUE, enc_type.pos)
        ELSE IF enc_type.v \div 64 = RDB_6BITLEN
        THEN Length(TRUE, enc_type.v % 64, FALSE, enc_type.pos)
        ELSE IF enc_type.v \div 64 = RDB_14BITLEN
        THEN Let(read_u8(b, enc_type.pos), LAMBDA next_byte :
                 Length(next_byte.ok, (enc_type.v % 64) * 256 + next_byte.v,
                        FALSE, next_byte.pos))
        ELSE Let(read_u32BE(b, enc_type.pos), LAMBDA length :
                 Length(length.ok, length.v, FALSE, length.pos)))

read_length(b, pos) ==
    Let(read_length_with_encoding(b, pos), LAMBDA r :
        [ok |-> r.ok, v |-> r.v, pos |-> r.pos])

(***************************************************************************)
(* lzf::decompress(data, out_len_should): literal runs and back            *)
(* references; the result is [ok, v].                                      *)
(***************************************************************************)
RECURSIVE CopyBack(_, _, _)
CopyBack(out, ref_pos, n) ==
    IF n = 0 THEN out
    ELSE CopyBack(Append(out, out[ref_pos + 1]), ref_pos + 1, n - 1)

LzfBad == [ok |-> FALSE, v |-> <<>>]

RECURSIVE LzfLoop(_, _, _, _)

\* a back reference whose control byte is ctrl; j is the offset of its last byte
LzfBackRef(data, j, out, cap, ctrl, len) ==
    IF j >= Len(data) THEN LzfBad
    ELSE Let(Len(out) - ((ctrl % 32) * 256 + 1 + data[j + 1]), LAMBDA ref_pos :
             IF Len(out) + len + 2 > cap \/ ref_pos < 0 THEN LzfBad
             ELSE LzfLoop(data, j + 1, CopyBack(out, ref_pos, len + 2), cap))

LzfLoop(data, i, out, cap) ==
    IF i >= Len(data) THEN [ok |-> TRUE, v |-> out]
    ELSE Let(data[i + 1], LAMBDA ctrl :
             IF ctrl < 32
             THEN IF Len(out) + ctrl + 1 > cap \/ i + 1 + ctrl + 1 > Len(data)
                  THEN LzfBad
                  ELSE LzfLoop(data, i + ctrl + 2,
                               out \o SubSeq(data, i + 2, i + ctrl + 2), cap)
             ELSE IF i + 1 >= Len(data) THEN LzfBad
             ELSE IF ctrl \div 32 = 7
                  THEN LzfBackRef(data, i + 2, out, cap, ctrl, 7 + data[i + 2])
                  ELSE LzfBackRef(data, i + 1, out, cap, ctrl, ctrl \div 32))

lzf_decompress(data, out_len_should) ==
    IF Len(data) = 0 THEN LzfBad ELSE LzfLoop(data, 0, <<>>, out_len_should)

(***************************************************************************)
(* read_blob: result [st, v, pos] with st one of "ok", "err" (an Err       *)
(* value) and "panic" (unwrap / panic!).                                   *)
(***************************************************************************)
Blob(st, v, pos) == [st |-> st, v |-> v, pos |-> pos]

\* a blob that is the bytes F makes of a read
BlobOf(r, F(_)) ==
    IF r.ok THEN Blob("ok", F(r.v), r.pos) ELSE Blob("err", <<>>, r.pos)

Bytes(v) == v

read_lzf(b, pos) ==
    Let(read_length(b, pos), LAMBDA compressed_length :
    Let(read_length(b, compressed_length.pos), LAMBDA real_length :
    Let(read_exact(b, real_length.pos, compressed_length.v), LAMBDA data :
        IF ~compressed_length.ok \/ ~real_length.ok \/ ~data.ok
        THEN Blob("err", <<>>, pos)
        ELSE Let(lzf_decompress(data.v, real_length.v), LAMBDA z :
                 IF z.ok THEN Blob("ok", z.v, data.pos)
                 ELSE Blob("panic", <<>>, data.pos)))))

read_blob(b, pos) ==
    Let(read_length_with_encoding(b, pos), LAMBDA h :
        IF ~h.ok THEN Blob("err", <<>>, h.pos)
        ELSE IF ~h.enc THEN BlobOf(read_exact(b, h.pos, h.v), Bytes)
        ELSE IF h.v = ENC_INT8 THEN BlobOf(read_iLE(b, h.pos, 1), int_to_vec)
        ELSE IF h.v = ENC_INT16 THEN BlobOf(read_iLE(b, h.pos, 2), int_to_vec)
        ELSE IF h.v = ENC_INT32 THEN BlobOf(read_iLE(b, h.pos, 4), int_to_vec)
        ELSE IF h.v = ENC_LZF THEN read_lzf(b, h.pos)
        ELSE Blob("panic", <<>>, h.pos))

\* read_ziplist_metadata: zlbytes, zltail, zllen; v is zllen
read_ziplist_metadata(b, pos) ==
    Let(read_u32LE(b, pos), LAMBDA zlbytes :
    Let(read_u32LE(b, zlbytes.pos), LAMBDA zltail :
        IF ~zlbytes.ok THEN zlbytes
        ELSE IF ~zltail.ok THEN zltail
        ELSE read_u16LE(b, zltail.pos)))

(***************************************************************************)
(* The parser record.                                                      *)
(*   pc, status       where parse() is; "run", "ok", "err" (parse returned *)
(*                    Err) or "panic" (parse unwound)                      *)
(*   pos              bytes of input consumed                              *)
(*   last_expiretime  RdbParser.last_expiretime (None or milliseconds)     *)
(*   last_database    the local of parse()                                 *)
(*   filter           the sets the three predicates of the Filter admit    *)
(*   failAt           the formatter: the number of the callback that       *)
(*                    returns Err (0: every callback returns Ok)           *)
(*   events           the callbacks the formatter has received, in order   *)
(*   asked            the filter predicates consulted, in order            *)
(*   cursors          history: pos at the top of each loop iteration       *)
(*   after            history: what each sub-format reader found behind    *)
(*                    the last entry it was told to read (-1: nothing)     *)
(***************************************************************************)
Running(p) == p.status = "run"

Err(p_) ==
    Let(p_, LAMBDA p : (
        IF Running(p) THEN [p EXCEPT !.status = "err"] ELSE p
    ))

Panic(p_) ==
    Let(p_, LAMBDA p : (
        IF Running(p) THEN [p EXCEPT !.status = "panic"] ELSE p
    ))

At(p_, pos) ==
    Let(p_, LAMBDA p : (
        IF Running(p) THEN [p EXCEPT !.pos = pos] ELSE p
    ))

\* the outcome of a failed read_blob: Err for `?`, unwinding for a panic
BlobFailed(p_, blob) ==
    Let(p_, LAMBDA p : (
        IF blob.st = "panic" THEN Panic(p) ELSE Err(p)
    ))

Event(name, key, a, b, n, exp, enc) ==
    [ev |-> name, key |-> key, a |-> a, b |-> b, n |-> n, exp |-> exp,
     enc |-> enc]

NoEnc == <<"", 0>>

\* self.formatter.<callback>(...)? : the callback is received; if it is the
\* failing one, parse returns its Err
\* a faulty variant: the error of the callback is dropped
Emit_swallowed(p, e) ==
    IF ~Running(p) THEN p ELSE [p EXCEPT !.events = Append(@, e)]

Emit(p_, e) ==
    Let(p_, LAMBDA p : (
        IF ~Running(p) THEN p
        ELSE IF Len(p.events) + 1 = p.failAt
             THEN [p EXCEPT !.events = Append(@, e), !.status = "err"]
             ELSE [p EXCEPT !.events = Append(@, e)]
    ))

Note(p_, reader, byte) ==
    Let(p_, LAMBDA p : (
        IF Running(p)
        THEN [p EXCEPT !.after = Append(@, [reader |-> reader, byte |-> byte])]
        ELSE p
    ))

PeekByte(b, pos) == IF pos < Len(b) THEN b[pos + 1] ELSE -1

(***************************************************************************)
(* str::parse::<f64>: does the text denote a float                         *)
(***************************************************************************)
AllDigits(s) == \A i \in 1..Len(s) : s[i] \in 48..57

Lower(s) == [i \in 1..Len(s) |-> IF s[i] \in 65..90 THEN s[i] + 32 ELSE s[i]]

\* digits, then optionally a point and digits, with a digit somewhere
IsMantissa(s) ==
    \E k \in 0..Len(s) :
        /\ AllDigits(SubSeq(s, 1, k))
        /\ \/ k = Len(s) /\ k > 0
           \/ /\ k < Len(s)
              /\ s[k + 1] = 46
              /\ AllDigits(SubSeq(s, k + 2, Len(s)))
              /\ Len(s) > 1

Unsign(s) == IF s # <<>> /\ s[1] \in {43, 45} THEN Tail(s) ELSE s

IsExponent(s) == Unsign(s) # <<>> /\ AllDigits(Unsign(s))

IsUnsignedF64Text(u) ==
    \/ Lower(u) \in {<<105, 110, 102>>, <<110, 97, 110>>,
                     <<105, 110, 102, 105, 110, 105, 116, 121>>}
    \/ IsMantissa(u)
    \/ \E e \in 2..Len(u) :
         /\ u[e] \in {69, 101}
         /\ IsMantissa(SubSeq(u, 1, e - 1))
         /\ IsExponent(SubSeq(u, e + 1, Len(u)))

IsF64Text(s) == s # <<>> /\ IsUnsignedF64Text(Unsign(s))

SCORE_NAN == <<110, 97, 110>>
SCORE_INF == <<105, 110, 102>>
SCORE_NEG_INF == <<45, 105, 110, 102>>

(***************************************************************************)
(* Readers of the length-prefixed containers.                              *)
(***************************************************************************)
Element(name, key, a, b) == Event(name, key, a, b, 0, None, NoEnc)

Start(name, key, n, p, enc) == Event(name, key, <<>>, <<>>, n, p.last_expiretime, enc)

End(name, key) == Event(name, key, <<>>, <<>>, 0, None, NoEnc)

RECURSIVE linked_list_loop(_, _, _)
linked_list_loop(p_, key, len) ==
    Let(p_, LAMBDA p : (
        IF ~Running(p) \/ len = 0 THEN p
        ELSE Let(read_blob(input, p.pos), LAMBDA blob :
                 IF blob.st # "ok" THEN BlobFailed(p, blob)
                 ELSE linked_list_loop(
                          Emit(At(p, blob.pos),
                               Element("list_element", key, blob.v, <<>>)),
                          key, Pred32(len)))
    ))

read_linked_list(p, key, typ) ==
    Let(read_length(input, p.pos), LAMBDA len :
        IF ~len.ok THEN Err(p)
        ELSE IF typ = "List"
        THEN Emit(linked_list_loop(
                      Emit(At(p, len.pos),
                           Start("start_list", key, len.v, p, <<"LinkedList", 0>>)),
                      key, len.v),
                  End("end_list", key))
        ELSE Emit(linked_list_loop(
                      Emit(At(p, len.pos),
                           Start("start_set", key, len.v, p, <<"LinkedList", 0>>)),
                      key, len.v),
                  End("end_set", key)))

RECURSIVE sorted_set_type_2_loop(_, _, _)
sorted_set_type_2_loop(p_, key, set_items) ==
    Let(p_, LAMBDA p : (
        IF ~Running(p) \/ set_items = 0 THEN p
        ELSE Let(read_blob(input, p.pos), LAMBDA val :
             Let(read_exact(input, val.pos, 8), LAMBDA score :
                 IF val.st # "ok" THEN BlobFailed(p, val)
                 ELSE IF ~score.ok THEN Err(p)
                 ELSE sorted_set_type_2_loop(
                          Emit(At(p, score.pos),
                               Element("sorted_set_element", key, val.v, score.v)),
                          key, Pred32(set_items))))
    ))

read_sorted_set_type_2(p, key) ==
    Let(read_length(input, p.pos), LAMBDA set_items :
        IF ~set_items.ok THEN Panic(p)
        ELSE Emit(sorted_set_type_2_loop(
                      Emit(At(p, set_items.pos),
                           Start("start_sorted_set", key, set_items.v, p,
                                 <<"Hashtable", 0>>)),
                      key, set_items.v),
                  End("end_sorted_set", key)))

\* the score behind the value val: [st, v, pos]
read_score(val) ==
    Let(read_u8(input, val.pos), LAMBDA score_length :
        IF ~score_length.ok THEN Blob("err", <<>>, val.pos)
        ELSE IF score_length.v = 253 THEN Blob("ok", SCORE_NAN, score_length.pos)
        ELSE IF score_length.v = 254 THEN Blob("ok", SCORE_INF, score_length.pos)
        ELSE IF score_length.v = 255
        THEN Blob("ok", SCORE_NEG_INF, score_length.pos)
        ELSE Let(read_exact(input, score_length.pos, score_length.v), LAMBDA tmp :
                 IF ~tmp.ok THEN Blob("err", <<>>, val.pos)
                 ELSE IF ~IsF64Text(tmp.v) THEN Blob("panic", <<>>, val.pos)
                 ELSE Blob("ok", tmp.v, tmp.pos)))

RECURSIVE sorted_set_loop(_, _, _)
sorted_set_loop(p_, key, set_items) ==
    Let(p_, LAMBDA p : (
        IF ~Running(p) \/ set_items = 0 THEN p
        ELSE Let(read_blob(input, p.pos), LAMBDA val :
                 IF val.st # "ok" THEN BlobFailed(p, val)
                 ELSE Let(read_score(val), LAMBDA score :
                          IF score.st # "ok" THEN BlobFailed(p, score)
                          ELSE sorted_set_loop(
                                   Emit(At(p, score.pos),
                                        Element("sorted_set_element", key, val.v,
                                                score.v)),
                                   key, Pred32(set_items))))
    ))

read_sorted_set(p, key) ==
    Let(read_length(input, p.pos), LAMBDA set_items :
        IF ~set_items.ok THEN Panic(p)
        ELSE Emit(sorted_set_loop(
                      Emit(At(p, set_items.pos),
                           Start("start_sorted_set", key, set_items.v, p,
                                 <<"Hashtable", 0>>)),
                      key, set_items.v),
                  End("end_sorted_set", key)))

RECURSIVE hash_loop(_, _, _)
hash_loop(p_, key, hash_items) ==
    Let(p_, LAMBDA p : (
        IF ~Running(p) \/ hash_items = 0 THEN p
        ELSE Let(read_blob(input, p.pos), LAMBDA field :
             Let(read_blob(input, field.pos), LAMBDA val :
                 IF field.st # "ok" THEN BlobFailed(p, field)
                 ELSE IF val.st # "ok" THEN BlobFailed(p, val)
                 ELSE hash_loop(
                          Emit(At(p, val.pos),
                               Element("hash_element", key, field.v, val.v)),
                          key, Pred32(hash_items))))
    ))

read_hash(p, key) ==
    Let(read_length(input, p.pos), LAMBDA hash_items :
        IF ~hash_items.ok THEN Err(p)
        ELSE Emit(hash_loop(
                      Emit(At(p, hash_items.pos),
                           Start("start_hash", key, hash_items.v, p,
                                 <<"Hashtable", 0>>)),
                      key, hash_items.v),
                  End("end_hash", key)))

(***************************************************************************)
(* Ziplist entries.  read_ziplist_entry: [st, number, v, pos] where v is   *)
(* the raw string or the integer.                                          *)
(***************************************************************************)
RECURSIVE Xor(_, _)
Xor(a, b) ==
    IF a = 0 THEN b
    ELSE IF b = 0 THEN a
    ELSE (((a % 2) + (b % 2)) % 2) + 2 * Xor(a \div 2, b \div 2)

\* a faulty variant: the constant of the XOR stays in the number
Int24_xor_kept(bytes) ==
    Xor(Signed(<<bytes[3]>>) * Pow2(16) + bytes[2] * Pow2(8) + bytes[1], 48)

\* (((b2 as i32) << 24) ^ ((b1 as i32) << 16) ^ ((b0 as i32) << 8) ^ 48) >> 8
Int24(bytes) ==
    (Signed(<<bytes[3]>>) * Pow2(24)
       + Xor(Xor(bytes[2] * Pow2(16), bytes[1] * Pow2(8)), 48)) \div 256

Entry(st, number, v, pos) == [st |-> st, number |-> number, v |-> v, pos |-> pos]

NoEntry(pos) == Entry("err", FALSE, 0, pos)

EntryOfRead(r, number) ==
    IF r.ok THEN Entry("ok", number, r.v, r.pos) ELSE NoEntry(r.pos)

\* 3. Read value: let rawval = read_exact(ziplist, length as usize)?
read_ziplist_rawval(z, pos, length) ==
    EntryOfRead(read_exact(z, pos, length), FALSE)

\* 2. Read flag or number value
read_ziplist_flag(z, pos) ==
    Let(read_u8(z, pos), LAMBDA flag :
        IF ~flag.ok THEN NoEntry(pos)
        ELSE IF flag.v \div 64 = 0
        THEN read_ziplist_rawval(z, flag.pos, flag.v % 64)
        ELSE IF flag.v \div 64 = 1
        THEN Let(read_u8(z, flag.pos), LAMBDA next_byte :
                 IF ~next_byte.ok THEN NoEntry(pos)
                 ELSE read_ziplist_rawval(z, next_byte.pos,
                                          (flag.v % 64) * 256 + next_byte.v))
        ELSE IF flag.v \div 64 = 2
        THEN Let(read_u32BE(z, flag.pos), LAMBDA len :
                 IF ~len.ok THEN NoEntry(pos)
                 ELSE read_ziplist_rawval(z, len.pos, len.v))
        ELSE IF flag.v \div 16 = 12 THEN EntryOfRead(read_iLE(z, flag.pos, 2), TRUE)
        ELSE IF flag.v \div 16 = 13 THEN EntryOfRead(read_iLE(z, flag.pos, 4), TRUE)
        ELSE IF flag.v \div 16 = 14 THEN EntryOfRead(read_iLE(z, flag.pos, 8), TRUE)
        ELSE IF flag.v % 16 = 0
        THEN Let(read_some(z, flag.pos, 3), LAMBDA three :
                 IF three.n # 3 THEN NoEntry(pos)
                 ELSE Entry("ok", TRUE, Int24(three.v), three.pos))
        ELSE IF flag.v % 16 = 14 THEN EntryOfRead(read_iLE(z, flag.pos, 1), TRUE)
        ELSE Entry("ok", TRUE, (flag.v % 16) - 1, flag.pos))

\* 1. 1 or 5 bytes length of previous entry
read_ziplist_entry(z, pos) ==
    Let(read_u8(z, pos), LAMBDA byte :
        IF ~byte.ok THEN NoEntry(pos)
        ELSE IF byte.v # 254 THEN read_ziplist_flag(z, byte.pos)
        ELSE Let(read_some(z, byte.pos, 4), LAMBDA bytes :
                 IF bytes.n # 4 THEN NoEntry(pos)
                 ELSE read_ziplist_flag(z, bytes.pos)))

\* read_ziplist_entry_string: [st, v, pos] with the integer stringified
read_ziplist_entry_string(z, pos) ==
    Let(read_ziplist_entry(z, pos), LAMBDA entry :
        IF entry.st # "ok" THEN Blob(entry.st, <<>>, entry.pos)
        ELSE IF entry.number THEN Blob("ok", int_to_vec(entry.v), entry.pos)
        ELSE Blob("ok", entry.v, entry.pos))

\* a parser together with the offset of the Cursor over a sub-container
Sub(p, r) == [p |-> p, r |-> r]

\* a faulty variant: the end byte is read and not compared
end_byte_unchecked(s, z, reader) ==
    Let(read_u8(z, s.r), LAMBDA last_byte :
        IF ~last_byte.ok THEN Err(Note(s.p, reader, PeekByte(z, s.r)))
        ELSE Note(s.p, reader, PeekByte(z, s.r)))

\* let last_byte = reader.read_u8()?; if last_byte != 0xFF { return Err }
end_byte(s_, z, reader) ==
    Let(s_, LAMBDA s : (
        Let(read_u8(z, s.r), LAMBDA last_byte :
            IF ~last_byte.ok \/ last_byte.v # 255
            THEN Err(Note(s.p, reader, PeekByte(z, s.r)))
            ELSE Note(s.p, reader, PeekByte(z, s.r)))
    ))

(***************************************************************************)
(* Readers of the ziplist-wrapped containers.                              *)
(***************************************************************************)
RECURSIVE list_ziplist_loop(_, _, _, _)
list_ziplist_loop(s_, key, z, n) ==
    Let(s_, LAMBDA s : (
        IF ~Running(s.p) \/ n = 0 THEN s
        ELSE Let(read_ziplist_entry_string(z, s.r), LAMBDA entry :
                 IF entry.st # "ok" THEN Sub(BlobFailed(s.p, entry), s.r)
                 ELSE list_ziplist_loop(
                          Sub(Emit(s.p, Element("list_element", key, entry.v, <<>>)),
                              entry.pos),
                          key, z, n - 1))
    ))

read_list_ziplist(p, key) ==
    Let(read_blob(input, p.pos), LAMBDA ziplist :
        IF ziplist.st # "ok" THEN BlobFailed(p, ziplist)
        ELSE Let(read_ziplist_metadata(ziplist.v, 0), LAMBDA zllen :
                 IF ~zllen.ok THEN Err(At(p, ziplist.pos))
                 ELSE Emit(end_byte(
                               list_ziplist_loop(
                                   Sub(Emit(At(p, ziplist.pos),
                                            Start("start_list", key, zllen.v, p,
                                                  <<"Ziplist", Len(ziplist.v)>>)),
                                       zllen.pos),
                                   key, ziplist.v, zllen.v),
                               ziplist.v, "list_ziplist"),
                           End("end_list", key))))

RECURSIVE hash_ziplist_loop(_, _, _, _)
hash_ziplist_loop(s_, key, z, n) ==
    Let(s_, LAMBDA s : (
        IF ~Running(s.p) \/ n = 0 THEN s
        ELSE Let(read_ziplist_entry_string(z, s.r), LAMBDA field :
                 IF field.st # "ok" THEN Sub(BlobFailed(s.p, field), s.r)
                 ELSE Let(read_ziplist_entry_string(z, field.pos), LAMBDA value :
                          IF value.st # "ok" THEN Sub(BlobFailed(s.p, value), s.r)
                          ELSE hash_ziplist_loop(
                                   Sub(Emit(s.p, Element("hash_element", key, field.v,
                                                         value.v)),
                                       value.pos),
                                   key, z, n - 1)))
    ))

read_hash_ziplist(p, key) ==
    Let(read_blob(input, p.pos), LAMBDA ziplist :
        IF ziplist.st # "ok" THEN BlobFailed(p, ziplist)
        ELSE Let(read_ziplist_metadata(ziplist.v, 0), LAMBDA zllen :
                 IF ~zllen.ok THEN Err(At(p, ziplist.pos))
                 ELSE IF zllen.v % 2 # 0 THEN Panic(At(p, ziplist.pos))
                 ELSE Emit(end_byte(
                               hash_ziplist_loop(
                                   Sub(Emit(At(p, ziplist.pos),
                                            Start("start_hash", key, zllen.v \div 2,
                                                  p, <<"Ziplist", Len(ziplist.v)>>)),
                                       zllen.pos),
                                   key, ziplist.v, zllen.v \div 2),
                               ziplist.v, "hash_ziplist"),
                           End("end_hash", key))))

RECURSIVE sortedset_ziplist_loop(_, _, _, _)
sortedset_ziplist_loop(s_, key, z, n) ==
    Let(s_, LAMBDA s : (
        IF ~Running(s.p) \/ n = 0 THEN s
        ELSE Let(read_ziplist_entry_string(z, s.r), LAMBDA entry :
                 IF entry.st # "ok" THEN Sub(BlobFailed(s.p, entry), s.r)
                 ELSE Let(read_ziplist_entry_string(z, entry.pos), LAMBDA score :
                          IF score.st # "ok" THEN Sub(BlobFailed(s.p, score), s.r)
                          ELSE IF ~IsF64Text(score.v) THEN Sub(Panic(s.p), s.r)
                          ELSE sortedset_ziplist_loop(
                                   Sub(Emit(s.p, Element("sorted_set_element", key,
                                                         entry.v, score.v)),
                                       score.pos),
                                   key, z, n - 1)))
    ))

\* assert!(zllen % 2 == 0) behind the start_sorted_set callback
AssertEven(p, zllen) == IF zllen % 2 # 0 THEN Panic(p) ELSE p

read_sortedset_ziplist(p, key) ==
    Let(read_blob(input, p.pos), LAMBDA ziplist :
        IF ziplist.st # "ok" THEN BlobFailed(p, ziplist)
        ELSE Let(read_ziplist_metadata(ziplist.v, 0), LAMBDA zllen :
                 IF ~zllen.ok THEN Err(At(p, ziplist.pos))
                 ELSE Emit(end_byte(
                               sortedset_ziplist_loop(
                                   Sub(AssertEven(
                                           Emit(At(p, ziplist.pos),
                                                Start("start_sorted_set", key,
                                                      zllen.v, p,
                                                      <<"Ziplist", Len(ziplist.v)>>)),
                                           zllen.v),
                                       zllen.pos),
                                   key, ziplist.v, zllen.v \div 2),
                               ziplist.v, "sortedset_ziplist"),
                           End("end_sorted_set", key))))

\* a faulty variant: the byte behind the entries is not looked at
read_quicklist_ziplist_unended(p, key) ==
    Let(read_blob(input, p.pos), LAMBDA ziplist :
        IF ziplist.st # "ok" THEN BlobFailed(p, ziplist)
        ELSE Let(read_ziplist_metadata(ziplist.v, 0), LAMBDA zllen :
                 IF ~zllen.ok THEN Err(At(p, ziplist.pos))
                 ELSE list_ziplist_loop(Sub(At(p, ziplist.pos), zllen.pos), key,
                                        ziplist.v, zllen.v).p))

read_quicklist_ziplist(p, key) ==
    Let(read_blob(input, p.pos), LAMBDA ziplist :
        IF ziplist.st # "ok" THEN BlobFailed(p, ziplist)
        ELSE Let(read_ziplist_metadata(ziplist.v, 0), LAMBDA zllen :
                 IF ~zllen.ok THEN Err(At(p, ziplist.pos))
                 ELSE end_byte(
                          list_ziplist_loop(Sub(At(p, ziplist.pos), zllen.pos), key,
                                            ziplist.v, zllen.v),
                          ziplist.v, "quicklist_ziplist")))

RECURSIVE quicklist_loop(_, _, _)
quicklist_loop(p_, key, len) ==
    Let(p_, LAMBDA p : (
        IF ~Running(p) \/ len = 0 THEN p
        ELSE quicklist_loop(read_quicklist_ziplist(p, key), key, Pred32(len))
    ))

read_quicklist(p, key) ==
    Let(read_length(input, p.pos), LAMBDA len :
        IF ~len.ok THEN Err(p)
        ELSE Emit(quicklist_loop(
                      Emit(At(p, len.pos),
                           Start("start_set", key, 0, p, <<"Quicklist", 0>>)),
                      key, len.v),
                  End("end_set", key)))

(***************************************************************************)
(* Zipmap and intset.                                                      *)
(***************************************************************************)
\* read_zipmap_entry: [st, v, pos]
read_zipmap_entry(next_byte, z, pos) ==
    IF next_byte = 253
    THEN Let(read_u32LE(z, pos), LAMBDA elem_len :
             IF ~elem_len.ok THEN Blob("panic", <<>>, pos)
             ELSE BlobOf(read_exact(z, elem_len.pos, elem_len.v), Bytes))
    ELSE IF next_byte \in {254, 255} THEN Blob("panic", <<>>, pos)
    ELSE BlobOf(read_exact(z, pos, next_byte), Bytes)

RECURSIVE hash_zipmap_loop(_, _, _, _)
\* behind hash_element: if length > 0 { length -= 1 }; if length == 0 { ... }
hash_zipmap_next(s, key, z, length) ==
    IF Running(s.p) /\ length = 0 THEN end_byte(s, z, "zipmap")
    ELSE hash_zipmap_loop(s, key, z, length)

hash_zipmap_entry(p0, key, z, length, next_byte) ==
    Let(read_zipmap_entry(next_byte.v, z, next_byte.pos), LAMBDA field :
        IF field.st # "ok" THEN BlobFailed(p0, field)
        ELSE Let(read_u8(z, field.pos), LAMBDA next_byte2 :
             Let(read_u8(z, next_byte2.pos), LAMBDA free :
                 IF ~next_byte2.ok \/ ~free.ok THEN Err(p0)
                 ELSE Let(read_zipmap_entry(next_byte2.v, z, free.pos),
                          LAMBDA value :
                          IF value.st # "ok" THEN BlobFailed(p0, value)
                          ELSE hash_zipmap_next(
                                   Sub(Emit(p0, Element("hash_element", key,
                                                        field.v, value.v)),
                                       value.pos),
                                   key, z,
                                   IF length > 0 THEN length - 1 ELSE length)))))

hash_zipmap_loop(s_, key, z, length) ==
    Let(s_, LAMBDA s : (
        IF ~Running(s.p) THEN s.p
        ELSE Let(read_u8(z, s.r), LAMBDA next_byte :
             Let(IF length = 0 THEN Note(s.p, "zipmap_head", PeekByte(z, s.r))
                 ELSE s.p,
                 LAMBDA p0 :
                 IF ~next_byte.ok THEN Err(p0)
                 ELSE IF next_byte.v = 255 THEN p0
                 ELSE hash_zipmap_entry(p0, key, z, length, next_byte)))
    ))

read_hash_zipmap(p, key) ==
    Let(read_blob(input, p.pos), LAMBDA zipmap :
        IF zipmap.st # "ok" THEN BlobFailed(p, zipmap)
        ELSE Let(read_u8(zipmap.v, 0), LAMBDA zmlen :
                 IF ~zmlen.ok THEN Err(At(p, zipmap.pos))
                 ELSE Emit(hash_zipmap_loop(
                               Sub(Emit(At(p, zipmap.pos),
                                        Start("start_hash", key,
                                              IF zmlen.v <= 254 THEN zmlen.v ELSE 0,
                                              p, <<"Zipmap", Len(zipmap.v)>>)),
                                   zmlen.pos),
                               key, zipmap.v,
                               IF zmlen.v <= 254 THEN zmlen.v ELSE -1),
                           End("end_hash", key))))

RECURSIVE set_intset_loop(_, _, _, _, _)
set_intset_loop(s_, key, z, byte_size, n) ==
    Let(s_, LAMBDA s : (
        IF ~Running(s.p) THEN s.p
        ELSE IF n = 0 THEN Note(s.p, "intset", PeekByte(z, s.r))
        ELSE IF byte_size \notin {2, 4, 8} THEN Panic(s.p)
        ELSE Let(read_iLE(z, s.r, byte_size), LAMBDA val :
                 IF ~val.ok THEN Err(s.p)
                 ELSE set_intset_loop(
                          Sub(Emit(s.p, Element("set_element", key, int_to_vec(val.v),
                                                <<>>)),
                              val.pos),
                          key, z, byte_size, Pred32(n)))
    ))

read_set_intset(p, key) ==
    Let(read_blob(input, p.pos), LAMBDA intset :
        IF intset.st # "ok" THEN BlobFailed(p, intset)
        ELSE Let(read_u32LE(intset.v, 0), LAMBDA byte_size :
             Let(read_u32LE(intset.v, byte_size.pos), LAMBDA intset_length :
                 IF ~byte_size.ok \/ ~intset_length.ok THEN Err(At(p, intset.pos))
                 ELSE Emit(set_intset_loop(
                               Sub(Emit(At(p, intset.pos),
                                        Start("start_set", key, intset_length.v, p,
                                              <<"Intset", Len(intset.v)>>)),
                                   intset_length.pos),
                               key, intset.v, byte_size.v, intset_length.v),
                           End("end_set", key)))))

(***************************************************************************)
(* read_type: dispatch on the encoding tag.                                *)
(***************************************************************************)
read_string(p, key) ==
    Let(read_blob(input, p.pos), LAMBDA val :
        IF val.st # "ok" THEN BlobFailed(p, val)
        ELSE Emit(At(p, val.pos),
                  Event("set", key, val.v, <<>>, 0, p.last_expiretime, NoEnc)))

read_type(p, key, value_type) ==
    IF value_type = T_STRING THEN read_string(p, key)
    ELSE IF value_type = T_LIST THEN read_linked_list(p, key, "List")
    ELSE IF value_type = T_SET THEN read_linked_list(p, key, "Set")
    ELSE IF value_type = T_ZSET THEN read_sorted_set(p, key)
    ELSE IF value_type = T_ZSET_2 THEN read_sorted_set_type_2(p, key)
    ELSE IF value_type = T_HASH THEN read_hash(p, key)
    ELSE IF value_type = T_HASH_ZIPMAP THEN read_hash_zipmap(p, key)
    ELSE IF value_type = T_LIST_ZIPLIST THEN read_list_ziplist(p, key)
    ELSE IF value_type = T_SET_INTSET THEN read_set_intset(p, key)
    ELSE IF value_type = T_ZSET_ZIPLIST THEN read_sortedset_ziplist(p, key)
    ELSE IF value_type = T_HASH_ZIPLIST THEN read_hash_ziplist(p, key)
    ELSE IF value_type = T_LIST_QUICKLIST THEN read_quicklist(p, key)
    ELSE Panic(p)

(***************************************************************************)
(* The skip path.                                                          *)
(***************************************************************************)
\* a faulty variant: the formatter is told of the bytes skipped
skip_reported(p, skip_bytes) ==
    IF ~Running(p) THEN p
    ELSE Let(read_exact(input, p.pos, skip_bytes), LAMBDA buf :
             IF buf.ok
             THEN Emit(At(p, buf.pos),
                       Event("skipped", <<>>, <<>>, <<>>, skip_bytes, None, NoEnc))
             ELSE Err(p))

skip(p_, skip_bytes) ==
    Let(p_, LAMBDA p : (
        IF ~Running(p) THEN p
        ELSE Let(read_exact(input, p.pos, skip_bytes), LAMBDA buf :
                 IF buf.ok THEN At(p, buf.pos) ELSE Err(p))
    ))

\* a faulty variant: the original length is not read
skip_lzf_one_length(p, pos) ==
    Let(read_length(input, pos), LAMBDA compressed_length :
        IF ~compressed_length.ok THEN Panic(p)
        ELSE skip(At(p, compressed_length.pos), compressed_length.v))

skip_lzf(p, pos) ==
    Let(read_length(input, pos), LAMBDA compressed_length :
    Let(read_length(input, compressed_length.pos), LAMBDA real_length :
        IF ~compressed_length.ok \/ ~real_length.ok THEN Panic(p)
        ELSE skip(At(p, real_length.pos), compressed_length.v)))

skip_blob(p_) ==
    Let(p_, LAMBDA p : (
        IF ~Running(p) THEN p
        ELSE Let(read_length_with_encoding(input, p.pos), LAMBDA h :
                 IF ~h.ok THEN Panic(p)
                 ELSE IF ~h.enc THEN skip(At(p, h.pos), h.v)
                 ELSE IF h.v = ENC_INT8 THEN skip(At(p, h.pos), 1)
                 ELSE IF h.v = ENC_INT16 THEN skip(At(p, h.pos), 2)
                 ELSE IF h.v = ENC_INT32 THEN skip(At(p, h.pos), 4)
                 ELSE IF h.v = ENC_LZF THEN skip_lzf(p, h.pos)
                 ELSE Panic(p))
    ))

RECURSIVE skip_blobs(_, _)
skip_blobs(p_, blobs_to_skip) ==
    Let(p_, LAMBDA p : (
        IF ~Running(p) \/ blobs_to_skip = 0 THEN p
        ELSE skip_blobs(skip_blob(p), Pred32(blobs_to_skip))
    ))

RECURSIVE skip_zset_2(_, _)
skip_zset_2(p_, length) ==
    Let(p_, LAMBDA p : (
        IF ~Running(p) \/ length = 0 THEN p
        ELSE skip_zset_2(skip(skip_blob(p), 8), Pred32(length))
    ))

\* w * 2 on a u32 word, wrapped to 32 bits
Twice(w) ==
    IF (w \div Pow2(30)) % 2 = 1 THEN ((w % Pow2(30)) - Pow2(30)) * 2
    ELSE (w % Pow2(30)) * 2

\* read_length * 2: beyond u32 the product unwinds when the build checks
\* overflow and wraps when it does not
skip_pairs(p, length) ==
    IF length.v < 0 /\ p.overflow_checks THEN Panic(p)
    ELSE skip_blobs(At(p, length.pos), Twice(length.v))

skip_object(p, enc_type) ==
    IF ~Running(p) THEN p
    ELSE IF enc_type \in {T_STRING, T_HASH_ZIPMAP, T_LIST_ZIPLIST, T_SET_INTSET,
                          T_ZSET_ZIPLIST, T_HASH_ZIPLIST}
    THEN skip_blobs(p, 1)
    ELSE IF enc_type \notin {T_LIST, T_SET, T_LIST_QUICKLIST, T_ZSET, T_HASH,
                             T_ZSET_2}
    THEN Panic(p)
    ELSE Let(read_length(input, p.pos), LAMBDA length :
             IF enc_type = T_ZSET_2
             THEN IF ~length.ok THEN Err(p)
                  ELSE skip_zset_2(At(p, length.pos), length.v)
             ELSE IF ~length.ok THEN Panic(p)
             ELSE IF enc_type \in {T_ZSET, T_HASH} THEN skip_pairs(p, length)
             ELSE skip_blobs(At(p, length.pos), length.v))

skip_key_and_object(p, enc_type) == skip_object(skip_blob(p), enc_type)

(***************************************************************************)
(* The filter: each predicate admits everything or the members of a set.   *)
(***************************************************************************)
Admits(f, x) == f.any \/ x \in f.of

Ask(p, q, arg) ==
    IF Running(p) THEN [p EXCEPT !.asked = Append(@, [q |-> q, arg |-> arg])]
    ELSE p

matches_db(p, db) == Admits(p.filter.dbs, db)
matches_type(p, t) == Admits(p.filter.types, t)
matches_key(p, key) == Admits(p.filter.keys, key)

(***************************************************************************)
(* parse(): the header, then one handler per opcode of the loop.           *)
(***************************************************************************)
verify_magic(p) ==
    Let(read_some(input, p.pos, 5), LAMBDA magic :
        IF magic.n # 5 THEN Err(p)
        ELSE IF magic.v = RDB_MAGIC
        THEN [p EXCEPT !.pos = magic.pos, !.pc = "version"]
        ELSE Err(p))

\* version[i] - 48 on u8, wrapped
Digit(c) == (c - 48) % 256

\* version[i] - 48 on u8: below '0' the subtraction overflows, which unwinds
\* when the build checks overflow and wraps when it does not
verify_version(p) ==
    Let(read_some(input, p.pos, 4), LAMBDA version :
        IF version.n # 4 THEN Err(p)
        ELSE IF p.overflow_checks /\ \E i \in 1..4 : version.v[i] < 48
        THEN Panic(p)
        ELSE IF /\ Digit(version.v[1]) * 1000 + Digit(version.v[2]) * 100
                     + Digit(version.v[3]) * 10 + Digit(version.v[4])
                   >= SUPPORTED_MINIMUM
                /\ Digit(version.v[1]) * 1000 + Digit(version.v[2]) * 100
                     + Digit(version.v[3]) * 10 + Digit(version.v[4])
                   <= SUPPORTED_MAXIMUM
        THEN [p EXCEPT !.pos = version.pos, !.pc = "start"]
        ELSE Err(p))

Bare(name, n) == Event(name, <<>>, <<>>, <<>>, n, None, NoEnc)

Entered(p, pc) == IF Running(p) THEN [p EXCEPT !.pc = pc] ELSE p

start_rdb(p) == Entered(Emit(p, Bare("start_rdb", 0)), "loop")

\* let next_op = self.input.read_u8()?
next_op(p) == read_u8(input, p.pos)

\* the parser behind the opcode byte; cursors records where the item began
Fetch(p) ==
    [p EXCEPT !.pos = next_op(p).pos, !.cursors = Append(@, p.pos)]

missing_opcode(p) == Err(p)

\* a faulty variant: no start_database for the database selected
select_db_silent(p1, db) == p1

select_db(p1, db) ==
    IF matches_db(p1, db) THEN Emit(p1, Bare("start_database", db)) ELSE p1

op_selectdb(p) ==
    Let(Fetch(p), LAMBDA p0 :
    Let(read_length(input, p0.pos), LAMBDA db :
        IF ~db.ok THEN Panic(p0)
        ELSE select_db(Ask([p0 EXCEPT !.pos = db.pos, !.last_database = db.v],
                           "db", <<db.v>>),
                       db.v)))

\* a faulty variant: the checksum callback without the test of len
read_checksum_always(p, checksum) ==
    Emit(At(p, Len(input)), Event("checksum", <<>>, checksum, <<>>, 0, None, NoEnc))

\* read_to_end behind end_rdb; the checksum callback when bytes were left
read_checksum(p, checksum) ==
    IF Len(checksum) > 0
    THEN Emit(At(p, Len(input)),
              Event("checksum", <<>>, checksum, <<>>, 0, None, NoEnc))
    ELSE At(p, Len(input))

Finished(p) ==
    IF Running(p) THEN [p EXCEPT !.status = "ok", !.pc = "done"] ELSE p

\* a faulty variant: end_database names database 0
op_eof_database_0(p) ==
    Let(Fetch(p), LAMBDA p0 :
        Finished(read_checksum(
                     Emit(Emit(p0, Bare("end_database", 0)), Bare("end_rdb", 0)),
                     SubSeq(input, p0.pos + 1, Len(input)))))

op_eof(p) ==
    Let(Fetch(p), LAMBDA p0 :
        Finished(read_checksum(
                     Emit(Emit(p0, Bare("end_database", p0.last_database)),
                          Bare("end_rdb", 0)),
                     SubSeq(input, p0.pos + 1, Len(input)))))

\* a faulty variant: the eight bytes are taken as big-endian
op_expiretime_ms_big_endian(p) ==
    Let(Fetch(p), LAMBDA p0 :
    Let(read_exact(input, p0.pos, 8), LAMBDA expiretime_ms :
        IF ~expiretime_ms.ok THEN Err(p0)
        ELSE [p0 EXCEPT !.pos = expiretime_ms.pos,
                        !.last_expiretime = Reverse(expiretime_ms.v)]))

op_expiretime_ms(p) ==
    Let(Fetch(p), LAMBDA p0 :
    Let(read_exact(input, p0.pos, 8), LAMBDA expiretime_ms :
        IF ~expiretime_ms.ok THEN Err(p0)
        ELSE [p0 EXCEPT !.pos = expiretime_ms.pos,
                        !.last_expiretime = expiretime_ms.v]))

\* a faulty variant: the product is computed on 32 bits
op_expiretime_u32(p) ==
    Let(Fetch(p), LAMBDA p0 :
    Let(read_exact(input, p0.pos, 4), LAMBDA expiretime :
        IF ~expiretime.ok THEN Err(p0)
        ELSE [p0 EXCEPT !.pos = expiretime.pos,
                        !.last_expiretime =
                            TimesLE(Reverse(expiretime.v), 1000, 0, 4)
                                \o <<0, 0, 0, 0>>]))

op_expiretime(p) ==
    Let(Fetch(p), LAMBDA p0 :
    Let(read_exact(input, p0.pos, 4), LAMBDA expiretime :
        IF ~expiretime.ok THEN Err(p0)
        ELSE [p0 EXCEPT !.pos = expiretime.pos,
                        !.last_expiretime =
                            TimesLE(Reverse(expiretime.v), 1000, 0, 8)]))

op_resizedb(p) ==
    Let(Fetch(p), LAMBDA p0 :
    Let(read_length(input, p0.pos), LAMBDA db_size :
    Let(read_length(input, db_size.pos), LAMBDA expires_size :
        IF ~db_size.ok \/ ~expires_size.ok THEN Err(p0)
        ELSE Emit(At(p0, expires_size.pos),
                  Event("resizedb", <<>>, <<>>, <<expires_size.v>>, db_size.v,
                        None, NoEnc)))))

op_aux(p) ==
    Let(Fetch(p), LAMBDA p0 :
    Let(read_blob(input, p0.pos), LAMBDA auxkey :
        IF auxkey.st # "ok" THEN BlobFailed(p0, auxkey)
        ELSE Let(read_blob(input, auxkey.pos), LAMBDA auxval :
                 IF auxval.st # "ok" THEN BlobFailed(p0, auxval)
                 ELSE Emit(At(p0, auxval.pos),
                           Event("aux_field", auxkey.v, auxval.v, <<>>, 0, None,
                                 NoEnc)))))

\* a faulty variant: the key is asked about and the answer is not used
read_or_skip_any_key(p2, key, tag) ==
    IF ~matches_type(p2, tag) THEN skip_object(p2, tag)
    ELSE read_type(Ask(p2, "key", key), key, tag)

\* matches_type(next_op) && matches_key(&key): the key is asked about only
\* when the type is admitted
read_or_skip(p2, key, tag) ==
    IF ~matches_type(p2, tag) THEN skip_object(p2, tag)
    ELSE IF ~matches_key(p2, key) THEN skip_object(Ask(p2, "key", key), tag)
    ELSE read_type(Ask(p2, "key", key), key, tag)

value_record(p1, tag) ==
    IF ~matches_db(p1, p1.last_database) THEN skip_key_and_object(p1, tag)
    ELSE Let(read_blob(input, p1.pos), LAMBDA key :
             IF key.st # "ok" THEN BlobFailed(p1, key)
             ELSE read_or_skip(Ask(At(p1, key.pos), "type", <<tag>>), key.v, tag))

\* a faulty variant: the expiry outlives the record
clear_expiretime_kept(p) == p

\* self.last_expiretime = None
clear_expiretime(p) ==
    IF Running(p) THEN [p EXCEPT !.last_expiretime = None] ELSE p

op_value(p) ==
    clear_expiretime(
        value_record(Ask(Fetch(p), "db", <<p.last_database>>), next_op(p).v))

CONTROL_OPS ==
    {OP_AUX, OP_RESIZEDB, OP_EXPIRETIME_MS, OP_EXPIRETIME, OP_SELECTDB, OP_EOF}

\* one step of parse() for a parser that runs alone
Step(p) ==
    IF ~Running(p) THEN p
    ELSE IF p.pc = "magic" THEN verify_magic(p)
    ELSE IF p.pc = "version" THEN verify_version(p)
    ELSE IF p.pc = "start" THEN start_rdb(p)
    ELSE IF ~next_op(p).ok THEN missing_opcode(p)
    ELSE IF next_op(p).v = OP_SELECTDB THEN op_selectdb(p)
    ELSE IF next_op(p).v = OP_EOF THEN op_eof(p)
    ELSE IF next_op(p).v = OP_EXPIRETIME_MS THEN op_expiretime_ms(p)
    ELSE IF next_op(p).v = OP_EXPIRETIME THEN op_expiretime(p)
    ELSE IF next_op(p).v = OP_RESIZEDB THEN op_resizedb(p)
    ELSE IF next_op(p).v = OP_AUX THEN op_aux(p)
    ELSE op_value(p)

(***************************************************************************)
(* The inputs: a header, up to MaxItems items, and a trailer.  The last    *)
(* item is any control opcode or value record, well formed or not; the     *)
(* items before it are database selections, expiries and string records,   *)
(* which the loop passes under every filter.                               *)
(***************************************************************************)
MaxItems == 2

HEADER == RDB_MAGIC \o <<48, 48, 48, 57>>

BAD_HEADERS ==
    {<<82, 69, 68>>,
     <<82, 69, 68, 73, 84, 48, 48, 48, 57>>,
     RDB_MAGIC \o <<48, 48>>,
     RDB_MAGIC \o <<48, 48, 48, 49>>,
     RDB_MAGIC \o <<48, 48, 49, 48>>,
     RDB_MAGIC \o <<48, 48, 48, 58>>,
     RDB_MAGIC \o <<48, 47, 48, 57>>,
     RDB_MAGIC \o <<0, 0, 0, 0>>}

CTL_SELECTDB_0 == <<254, 0>>
CTL_SELECTDB_1 == <<254, 1>>
CTL_EXPIRETIME_MS == <<252, 1, 0, 0, 0, 0, 0, 0, 0>>
CTL_EXPIRETIME == <<253, 0, 0, 0, 2>>
CTL_RESIZEDB == <<251, 1, 0>>
CTL_AUX == <<250, 1, 97, 192, 7>>
REC_STRING == <<0, 0, 1, 97>>
REC_STRING_K == <<0, 1, 107, 0>>
REC_STRING_INT8 == <<0, 0, 192, 255>>
REC_STRING_INT16 == <<0, 0, 193, 1, 2>>
REC_STRING_INT32 == <<0, 0, 194, 0, 0, 0, 128>>
REC_STRING_LZF == <<0, 0, 195, 5, 5, 1, 97, 98, 32, 1>>
REC_STRING_LZF_BAD == <<0, 0, 195, 1, 5, 32>>
REC_STRING_14BIT == <<0, 0, 64, 1, 97>>
REC_STRING_32BIT == <<0, 0, 128, 0, 0, 0, 1, 97>>
REC_STRING_UNKNOWN == <<0, 0, 196>>
REC_STRING_SHORT == <<0, 0, 2, 97>>
REC_LIST == <<1, 0, 2, 1, 97, 192, 5>>
REC_SET == <<2, 0, 1, 1, 97>>
REC_SET_K == <<2, 1, 107, 0>>
REC_ZSET == <<3, 0, 1, 1, 97, 1, 49>>
REC_ZSET_NAN == <<3, 0, 1, 0, 253>>
REC_ZSET_INF == <<3, 0, 2, 0, 254, 0, 255>>
REC_ZSET_TEXT == <<3, 0, 1, 0, 1, 120>>
REC_HASH == <<4, 0, 1, 1, 102, 1, 118>>
REC_ZSET_2 == <<5, 0, 1, 1, 97, 0, 0, 0, 0, 0, 0, 240, 63>>
REC_ZIPMAP == <<9, 0, 7, 1, 1, 102, 1, 0, 118, 255>>
REC_ZIPMAP_EMPTY == <<9, 0, 2, 0, 255>>
REC_ZIPMAP_ZERO == <<9, 0, 7, 0, 1, 102, 1, 0, 118, 255>>
REC_ZIPMAP_FEWER == <<9, 0, 7, 2, 1, 102, 1, 0, 118, 255>>
REC_ZIPMAP_UNKNOWN == <<9, 0, 12, 255, 1, 102, 1, 0, 118, 1, 102, 1, 0, 118,
    255>>
REC_ZIPMAP_BAD_END == <<9, 0, 7, 1, 1, 102, 1, 0, 118, 0>>
REC_ZIPMAP_UNENDED == <<9, 0, 6, 255, 1, 102, 1, 0, 118>>
REC_LIST_ZIPLIST == <<10, 0, 16, 16, 0, 0, 0, 10, 0, 0, 0, 2, 0, 0, 242, 0, 1,
    97, 255>>
REC_LIST_ZIPLIST_INTS == <<10, 0, 29, 29, 0, 0, 0, 10, 0, 0, 0, 4, 0, 0, 192,
    254, 255, 0, 240, 255, 255, 255, 0, 254, 128, 254, 1, 0, 0, 0, 241, 255>>
REC_LIST_ZIPLIST_BAD_END == <<10, 0, 13, 13, 0, 0, 0, 10, 0, 0, 0, 1, 0, 0,
    242, 0>>
REC_LIST_ZIPLIST_NO_END == <<10, 0, 12, 12, 0, 0, 0, 10, 0, 0, 0, 1, 0, 0,
    242>>
REC_ZSET_ZIPLIST == <<12, 0, 16, 16, 0, 0, 0, 10, 0, 0, 0, 2, 0, 0, 1, 97, 0,
    242, 255>>
REC_ZSET_ZIPLIST_BAD_END == <<12, 0, 16, 16, 0, 0, 0, 10, 0, 0, 0, 2, 0, 0, 1,
    97, 0, 242, 1>>
REC_ZSET_ZIPLIST_ODD == <<12, 0, 14, 14, 0, 0, 0, 10, 0, 0, 0, 1, 0, 0, 1, 97,
    255>>
REC_HASH_ZIPLIST == <<13, 0, 16, 16, 0, 0, 0, 10, 0, 0, 0, 2, 0, 0, 1, 102, 0,
    242, 255>>
REC_HASH_ZIPLIST_BAD_END == <<13, 0, 16, 16, 0, 0, 0, 10, 0, 0, 0, 2, 0, 0, 1,
    102, 0, 242, 254>>
REC_INTSET == <<11, 0, 12, 2, 0, 0, 0, 2, 0, 0, 0, 7, 0, 42, 0>>
REC_INTSET_TRAILING == <<11, 0, 11, 2, 0, 0, 0, 1, 0, 0, 0, 7, 0, 0>>
REC_INTSET_WIDTH == <<11, 0, 11, 3, 0, 0, 0, 1, 0, 0, 0, 7, 0, 0>>
REC_QUICKLIST == <<14, 0, 2, 13, 13, 0, 0, 0, 10, 0, 0, 0, 1, 0, 0, 242, 255,
    14, 14, 0, 0, 0, 10, 0, 0, 0, 1, 0, 0, 1, 97, 255>>
REC_QUICKLIST_BAD_END == <<14, 0, 1, 13, 13, 0, 0, 0, 10, 0, 0, 0, 1, 0, 0,
    242, 0>>
REC_UNKNOWN_TAG == <<6, 0, 0>>
CTL_SELECTDB_SHORT == <<254>>
CTL_EXPIRETIME_MAX == <<253, 255, 255, 255, 255>>
REC_NO_KEY == <<0>>
REC_HASH_HUGE == <<4, 0, 128, 128, 0, 0, 0>>
REC_ZSET_HUGE == <<3, 0, 128, 128, 0, 0, 1, 1, 97, 1, 49>>
REC_LIST_HUGE == <<1, 0, 128, 255, 255, 255, 255, 1, 97>>
REC_FOO_BAR == <<0, 3, 102, 111, 111, 3, 98, 97, 114>>
REC_QUICKLIST_NONE == <<14, 0, 0>>
REC_QUICKLIST_PAIRS == <<14, 0, 2, 16, 16, 0, 0, 0, 10, 0, 0, 0, 2, 0, 0, 242,
    0, 1, 97, 255, 14, 14, 0, 0, 0, 10, 0, 0, 0, 1, 0, 0, 1, 98, 255>>
REC_QUICKLIST_BAD_FIRST == <<14, 0, 2, 13, 13, 0, 0, 0, 10, 0, 0, 0, 1, 0, 0,
    242, 0, 14, 14, 0, 0, 0, 10, 0, 0, 0, 1, 0, 0, 1, 97, 255>>

ITEMS ==
    {CTL_SELECTDB_0, CTL_SELECTDB_1, CTL_EXPIRETIME_MS, CTL_EXPIRETIME,
     CTL_RESIZEDB, CTL_AUX, REC_STRING, REC_STRING_K, REC_STRING_INT8,
     REC_STRING_INT16, REC_STRING_INT32, REC_STRING_LZF, REC_STRING_LZF_BAD,
     REC_STRING_14BIT, REC_STRING_32BIT, REC_STRING_UNKNOWN,
     REC_STRING_SHORT, REC_LIST, REC_SET, REC_SET_K, REC_ZSET, REC_ZSET_NAN,
     REC_ZSET_INF, REC_ZSET_TEXT, REC_HASH, REC_ZSET_2, REC_ZIPMAP,
     REC_ZIPMAP_EMPTY, REC_ZIPMAP_ZERO, REC_ZIPMAP_FEWER, REC_ZIPMAP_UNKNOWN,
     REC_ZIPMAP_BAD_END, REC_LIST_ZIPLIST, REC_LIST_ZIPLIST_INTS,
     REC_LIST_ZIPLIST_BAD_END, REC_LIST_ZIPLIST_NO_END, REC_ZSET_ZIPLIST,
     REC_ZSET_ZIPLIST_BAD_END, REC_ZSET_ZIPLIST_ODD, REC_HASH_ZIPLIST,
     REC_HASH_ZIPLIST_BAD_END, REC_INTSET, REC_INTSET_TRAILING,
     REC_INTSET_WIDTH, REC_QUICKLIST, REC_QUICKLIST_BAD_END, REC_UNKNOWN_TAG,
     CTL_SELECTDB_SHORT, CTL_EXPIRETIME_MAX, REC_NO_KEY, REC_HASH_HUGE,
     REC_ZSET_HUGE, REC_LIST_HUGE, REC_FOO_BAR}

TRAILERS == {<<>>, <<255>>, <<255, 0>>}

LEADING ==
    {CTL_SELECTDB_0, CTL_SELECTDB_1, CTL_EXPIRETIME_MS, CTL_EXPIRETIME,
     REC_STRING, REC_STRING_K}

RECURSIVE Leads(_)
Leads(n) ==
    IF n = 0 THEN {<<>>}
    ELSE Leads(n - 1) \cup {b \o i : b \in Leads(n - 1), i \in LEADING}

Bodies(n) ==
    IF n = 0 THEN {<<>>}
    ELSE {<<>>} \cup {b \o i : b \in Leads(n - 1), i \in ITEMS}

\* the scenarios S2 and S3 of the specification
CHECKSUM_8 == <<0, 0, 0, 0, 0, 0, 0, 0>>
SCENARIO_S2 == HEADER \o CTL_SELECTDB_0 \o REC_FOO_BAR \o <<255>> \o CHECKSUM_8
SCENARIO_S3 ==
    HEADER \o CTL_SELECTDB_0 \o <<252, 0, 0, 0, 0, 0, 0, 0, 1>> \o REC_FOO_BAR
        \o <<255>> \o CHECKSUM_8

\* bodies longer than MaxItems: an expiry that waits for its record behind
\* other opcodes, and an expiry behind an expiry
SEQ_EXPIRY_KEPT ==
    CTL_EXPIRETIME_MAX \o CTL_SELECTDB_0 \o CTL_RESIZEDB \o CTL_AUX
        \o REC_STRING \o REC_STRING
SEQ_EXPIRY_TWICE == CTL_EXPIRETIME_MS \o CTL_EXPIRETIME \o REC_STRING
SEQ_EXPIRY_TWICE_MS == CTL_EXPIRETIME_MAX \o CTL_EXPIRETIME_MS \o REC_LIST
SEQUENCES == {SEQ_EXPIRY_KEPT, SEQ_EXPIRY_TWICE, SEQ_EXPIRY_TWICE_MS}

\* records that are parsed on their own, behind the header
ALONE ==
    {REC_QUICKLIST_NONE, REC_QUICKLIST_PAIRS, REC_QUICKLIST_BAD_FIRST,
     REC_ZIPMAP_UNENDED}

Inputs ==
    {HEADER \o b \o t : b \in Bodies(MaxItems) \cup SEQUENCES \cup ALONE,
                       t \in TRAILERS}
        \cup {h \o <<255>> : h \in BAD_HEADERS}
        \cup {SCENARIO_S2, SCENARIO_S3}

AllowAll ==
    [dbs |-> [any |-> TRUE, of |-> {}], types |-> [any |-> TRUE, of |-> {}],
     keys |-> [any |-> TRUE, of |-> {}]]

DenyAll ==
    [dbs |-> [any |-> FALSE, of |-> {}], types |-> [any |-> FALSE, of |-> {}],
     keys |-> [any |-> FALSE, of |-> {}]]

\* database 0, every type but SET, the empty key
Selective ==
    [dbs |-> [any |-> FALSE, of |-> {0}],
     types |-> [any |-> FALSE, of |-> (0..14) \ {T_SET}],
     keys |-> [any |-> FALSE, of |-> {<<>>}]]

Filters == {AllowAll, DenyAll, Selective}

\* RdbParser::new, at the entry of parse()
NewParser(filter, overflow_checks) ==
    [pc |-> "magic", status |-> "run", pos |-> 0, last_expiretime |-> None,
     last_database |-> 0, filter |-> filter, failAt |-> 0,
     overflow_checks |-> overflow_checks, events |-> <<>>, asked |-> <<>>,
     cursors |-> <<>>, after |-> <<>>]

Init ==
    /\ input \in Inputs
    /\ \E f \in Filters, oc \in BOOLEAN :
         /\ parser = NewParser(f, oc)
         /\ twin = NewParser(DenyAll, oc)

(***************************************************************************)
(* One action per step of parse().  The formatter may fail any callback of *)
(* the step: f is the callback of this step that returns Err (0: none).    *)
(* The twin takes its own step on the same input.                          *)
(***************************************************************************)
Run(H(_), p, f) ==
    H([p EXCEPT !.failAt = IF f = 0 THEN 0 ELSE Len(p.events) + f])

Fire(H(_)) ==
    /\ Running(parser)
    /\ \E f \in 0..(Len(H(parser).events) - Len(parser.events)) :
         parser' = Run(H, parser, f)
    /\ twin' = Step(twin)
    /\ UNCHANGED input

InLoop(op) ==
    /\ parser.pc = "loop"
    /\ next_op(parser).ok
    /\ next_op(parser).v = op

VerifyMagic == parser.pc = "magic" /\ Fire(verify_magic)

VerifyVersion == parser.pc = "version" /\ Fire(verify_version)

StartRdb == parser.pc = "start" /\ Fire(start_rdb)

MissingOpcode ==
    parser.pc = "loop" /\ ~next_op(parser).ok /\ Fire(missing_opcode)

SelectDb == InLoop(OP_SELECTDB) /\ Fire(op_selectdb)

Eof == InLoop(OP_EOF) /\ Fire(op_eof)

ExpireTimeMs == InLoop(OP_EXPIRETIME_MS) /\ Fire(op_expiretime_ms)

ExpireTime == InLoop(OP_EXPIRETIME) /\ Fire(op_expiretime)

ResizeDb == InLoop(OP_RESIZEDB) /\ Fire(op_resizedb)

Aux == InLoop(OP_AUX) /\ Fire(op_aux)

ValueRecord ==
    /\ parser.pc = "loop"
    /\ next_op(parser).ok
    /\ next_op(parser).v \notin CONTROL_OPS
    /\ Fire(op_value)

Next ==
    \/ VerifyMagic
    \/ VerifyVersion
    \/ StartRdb
    \/ MissingOpcode
    \/ SelectDb
    \/ Eof
    \/ ExpireTimeMs
    \/ ExpireTime
    \/ ResizeDb
    \/ Aux
    \/ ValueRecord

Spec == Init /\ [][Next]_vars

\* parse() is one sequential call: while it has not returned or unwound,
\* its next step is taken (the callbacks of the formatter and the
\* predicates of the filter return)
LiveSpec == Init /\ [][Next]_vars /\ WF_vars(Next)


(***************************************************************************)
(* The field decoders on their own: the input is one field, a length or a  *)
(* ziplist entry, and each action applies one decoder to it at offset 0.   *)
(***************************************************************************)
TAILS ==
    {<<>>, <<7>>, <<1, 2, 3>>, <<1, 2, 3, 4>>, <<128, 0, 0, 0>>,
     <<255, 255, 255, 255>>}

LENGTHS == {<<>>} \cup {<<b>> \o t : b \in 0..255, t \in TAILS}

EDGE_BYTES == {0, 1, 47, 48, 49, 127, 128, 255}

INT24_ENTRIES ==
    {<<0, 240, b0, b1, b2>> : b0 \in EDGE_BYTES, b1 \in EDGE_BYTES,
                              b2 \in EDGE_BYTES}
        \cup {<<0, 240>>, <<0, 240, 1, 2>>, <<0, 240, 1, 2, 3, 4>>,
              <<254, 0, 0, 0, 0, 240, 1, 2, 128>>}

\* the decoder has returned: its cursor and whether it returned Ok
Decoder(name, ok, pos) ==
    [NewParser(AllowAll, FALSE) EXCEPT
         !.pc = name, !.pos = pos, !.status = IF ok THEN "ok" ELSE "err"]

FieldInit ==
    /\ input \in LENGTHS \cup INT24_ENTRIES
    /\ parser = [NewParser(AllowAll, FALSE) EXCEPT !.pc = "field"]
    /\ twin = parser

ReadLengthWithEncoding ==
    /\ parser.pc = "field"
    /\ parser' = Decoder("read_length_with_encoding",
                         read_length_with_encoding(input, 0).ok,
                         read_length_with_encoding(input, 0).pos)
    /\ UNCHANGED <<input, twin>>

ReadZiplistEntry ==
    /\ parser.pc = "field"
    /\ parser' = Decoder("read_ziplist_entry",
                         read_ziplist_entry(input, 0).st = "ok",
                         read_ziplist_entry(input, 0).pos)
    /\ UNCHANGED <<input, twin>>

FieldNext ==
    \/ ReadLengthWithEncoding
    \/ ReadZiplistEntry

FieldSpec == FieldInit /\ [][FieldNext]_vars

(***************************************************************************)
(* What the claims speak about.                                            *)
(***************************************************************************)
Events == parser.events

Accepted == parser.status = "ok"

Count(name) == Cardinality({i \in 1..Len(Events) : Events[i].ev = name})

LastEvent == Events[Len(Events)]

\* the opcode byte of the i-th item the loop took up
OpcodeOf(i) == input[parser.cursors[i] + 1]

\* the bytes of the input behind the EOF opcode, the last item taken up
TrailingBytes ==
    SubSeq(input, parser.cursors[Len(parser.cursors)] + 2, Len(input))

StartKinds == {"start_list", "start_set", "start_hash", "start_sorted_set"}

EndKinds == {"end_list", "end_set", "end_hash", "end_sorted_set"}

EndOf(start) ==
    CASE start = "start_list" -> "end_list"
      [] start = "start_set" -> "end_set"
      [] start = "start_hash" -> "end_hash"
      [] start = "start_sorted_set" -> "end_sorted_set"

ElementOf(start) ==
    CASE start = "start_list" -> "list_element"
      [] start = "start_set" -> "set_element"
      [] start = "start_hash" -> "hash_element"
      [] start = "start_sorted_set" -> "sorted_set_element"

\* C1 as stated: in every successful parse start_rdb is emitted exactly
\* once and first, end_rdb exactly once, and end_rdb is the last event of
\* the stream, trailing bytes behind the EOF opcode or not.
C1_EndRdbIsLast ==
    Accepted =>
        /\ Count("start_rdb") = 1
        /\ Events[1].ev = "start_rdb"
        /\ Count("end_rdb") = 1
        /\ LastEvent.ev = "end_rdb"

\* C1 as amended: in every successful parse start_rdb is emitted exactly
\* once and first and end_rdb exactly once; end_rdb is the last event when
\* no byte follows the EOF opcode, and is followed by exactly one event,
\* checksum carrying the trailing bytes, when some do.
C1_EndRdbThenChecksum ==
    Accepted =>
        /\ Count("start_rdb") = 1
        /\ Events[1].ev = "start_rdb"
        /\ Count("end_rdb") = 1
        /\ IF TrailingBytes = <<>> THEN LastEvent.ev = "end_rdb"
           ELSE /\ LastEvent.ev = "checksum"
                /\ LastEvent.a = TrailingBytes
                /\ Events[Len(Events) - 1].ev = "end_rdb"

\* a successful parse of a record and of trailing bytes
C1_Witness ==
    /\ Accepted
    /\ TrailingBytes # <<>>
    /\ LastEvent.ev = "checksum"
    /\ Count("set") = 1

\* C2 as stated: in every successful parse each start_X of a key is followed
\* by one end_X of the same kind and key, and every event between the two is
\* an X_element of that kind and key, for all twelve tags.
C2_ElementsOfTheKind ==
    Accepted =>
        \A i \in 1..Len(Events) :
            Events[i].ev \in StartKinds =>
                \E j \in (i + 1)..Len(Events) :
                    /\ Events[j].ev = EndOf(Events[i].ev)
                    /\ Events[j].key = Events[i].key
                    /\ \A k \in (i + 1)..(j - 1) :
                           /\ Events[k].ev = ElementOf(Events[i].ev)
                           /\ Events[k].key = Events[i].key

\* C3 as stated: in every successful parse the count n of start_X(key, n)
\* is the number of element events up to the matching end_X, for every
\* container but the quicklist.
C3_CountIsElements ==
    Accepted =>
        \A i \in 1..Len(Events) :
            (Events[i].ev \in StartKinds /\ Events[i].enc[1] # "Quicklist") =>
                \E j \in (i + 1)..Len(Events) :
                    /\ Events[j].ev \in EndKinds
                    /\ \A k \in (i + 1)..(j - 1) : Events[k].ev \notin EndKinds
                    /\ Events[i].n = j - i - 1

Proceeding == parser.status \in {"run", "ok"}

IsExpireOp(i) == OpcodeOf(i) \in {OP_EXPIRETIME, OP_EXPIRETIME_MS}

IsValueRecord(i) == OpcodeOf(i) \notin CONTROL_OPS

\* C4: once parse() has handled a value record, read or skipped,
\* last_expiretime is None: an expiry is pending only when an EXPIRETIME
\* opcode was taken up and no value record since; so the events that carry
\* an expiry are at most as many as the EXPIRETIME opcodes.
C4_ExpiryClearedAfterRecord ==
    /\ (Proceeding /\ parser.last_expiretime # None) =>
           \E i \in 1..Len(parser.cursors) :
               /\ IsExpireOp(i)
               /\ \A j \in (i + 1)..Len(parser.cursors) : ~IsValueRecord(j)
    /\ Cardinality({k \in 1..Len(Events) : Events[k].exp # None})
           <= Cardinality({i \in 1..Len(parser.cursors) : IsExpireOp(i)})

\* an expiry, then a record that was skipped for its database
C4_Witness ==
    /\ parser.status = "run"
    /\ parser.filter = DenyAll
    /\ Len(parser.cursors) = 2
    /\ IsExpireOp(1)
    /\ IsValueRecord(2)
    /\ parser.last_expiretime = None

EndsOf(events) ==
    SelectSeq(events, LAMBDA e : e.ev \in {"end_database", "end_rdb"})

\* C5 as stated: an input accepted under the allow-all filter is accepted
\* under the deny-all filter, which takes up every item at the same offset
\* and emits the same end_database and end_rdb.
C5_SkipFollowsRead ==
    (Accepted /\ parser.filter = AllowAll) =>
        /\ twin.status = "ok"
        /\ twin.cursors = parser.cursors
        /\ twin.pos = parser.pos
        /\ EndsOf(twin.events) = EndsOf(Events)

\* a parser that stands at the offset pos of the input
Probe(pos) == At(NewParser(DenyAll, FALSE), pos)

\* the input never changes, so each input is examined once, before its parse
Unread == parser.pc = "magic"

\* C6: at every offset of the input where read_blob succeeds, skip_blob
\* succeeds and leaves the cursor where read_blob leaves it, whatever the
\* shape of the blob: plain, INT8, INT16, INT32 or LZF.
C6_SkipBlobFollowsReadBlob ==
    Unread =>
        \A pos \in 0..Len(input) :
            read_blob(input, pos).st = "ok" =>
                /\ Running(skip_blob(Probe(pos)))
                /\ skip_blob(Probe(pos)).pos = read_blob(input, pos).pos

\* an input that holds a well-formed LZF blob
C6_Witness ==
    /\ Unread
    /\ \E pos \in 0..(Len(input) - 1) :
           /\ input[pos + 1] = 192 + ENC_LZF
           /\ read_blob(input, pos).st = "ok"
           /\ skip_blob(Probe(pos)).pos = read_blob(input, pos).pos

\* the readers that compare the byte behind the entries with 0xFF
EndByteReaders ==
    {"list_ziplist", "hash_ziplist", "sortedset_ziplist", "quicklist_ziplist",
     "zipmap"}

Rejected ==
    /\ parser.status = "err"
    /\ Events # <<>>
    /\ LastEvent.ev \notin EndKinds

\* C7 as stated: every wrapped reader, the zipmap and the intset reader
\* included, fails the parse and emits no end_X when a byte other than 0xFF
\* follows the last entry the sub-container declares.
C7_EveryReaderChecksEnd ==
    \A i \in 1..Len(parser.after) :
        parser.after[i].byte \in 0..254 => Rejected

\* C7 as amended: the four ziplist readers, behind zllen entries (zllen/2
\* pairs), and the zipmap reader, behind the entry that exhausts the count
\* of zmlen or behind the first entry when zmlen is 0, fail the parse and
\* emit no end_X when the next byte is missing or is not 0xFF; the intset
\* reader, whose format has no end byte, checks none.
C7_EndByteChecked ==
    \A i \in 1..Len(parser.after) :
        (parser.after[i].reader \in EndByteReaders /\ parser.after[i].byte # 255)
            => (i = Len(parser.after) /\ Rejected)

\* a hash ziplist whose pairs are followed by 0xFE
C7_Witness ==
    /\ parser.after # <<>>
    /\ parser.after[Len(parser.after)] = [reader |-> "hash_ziplist", byte |-> 254]
    /\ Rejected
    /\ LastEvent.ev = "hash_element"

IsDigit(c) == c \in 48..57

ValidHeader ==
    /\ Len(input) >= 9
    /\ SubSeq(input, 1, 5) = RDB_MAGIC
    /\ \A i \in 6..9 : IsDigit(input[i])
    /\ (input[6] - 48) * 1000 + (input[7] - 48) * 100 + (input[8] - 48) * 10
          + (input[9] - 48) \in SUPPORTED_MINIMUM..SUPPORTED_MAXIMUM

\* C8 as stated: no event unless the input begins with 'REDIS' and four
\* ASCII digits of a supported version; on every other 9-byte prefix, bytes
\* below '0' included, parse() returns an error value.
C8_HeaderOrError ==
    /\ Events # <<>> => ValidHeader
    /\ (Len(input) >= 9 /\ ~ValidHeader /\ ~Running(parser)) =>
           parser.status = "err"

\* what one step of parse() adds to the events and to the filter's queries
NewEvents == SubSeq(parser'.events, Len(Events) + 1, Len(parser'.events))

NewAsked == SubSeq(parser'.asked, Len(parser.asked) + 1, Len(parser'.asked))

RecordKinds ==
    StartKinds \cup EndKinds
        \cup {"set", "list_element", "set_element", "hash_element",
              "sorted_set_element"}

Query(q, arg) == [q |-> q, arg |-> arg]

\* SELECTDB whose length was read: one query, start_database iff admitted
SelectDbGated ==
    parser'.status # "panic" =>
        /\ NewAsked = <<Query("db", <<parser'.last_database>>)>>
        /\ NewEvents =
               IF Admits(parser.filter.dbs, parser'.last_database)
               THEN <<Bare("start_database", parser'.last_database)>>
               ELSE <<>>

\* a value record: the queries in order, each only if the one before
\* admitted, and events of the record only if all three admitted
ValueRecordGated ==
    /\ Len(NewAsked) \in 1..3
    /\ NewAsked[1] = Query("db", <<parser.last_database>>)
    /\ ~Admits(parser.filter.dbs, parser.last_database) =>
           (Len(NewAsked) = 1 /\ NewEvents = <<>>)
    /\ Len(NewAsked) >= 2 =>
           /\ read_blob(input, parser.pos + 1).st = "ok"
           /\ NewAsked[2] = Query("type", <<next_op(parser).v>>)
           /\ ~Admits(parser.filter.types, next_op(parser).v) =>
                  (Len(NewAsked) = 2 /\ NewEvents = <<>>)
    /\ Len(NewAsked) = 3 =>
           /\ NewAsked[3] = Query("key", read_blob(input, parser.pos + 1).v)
           /\ ~Admits(parser.filter.keys, NewAsked[3].arg) => NewEvents = <<>>
    /\ NewEvents # <<>> =>
           /\ Len(NewAsked) = 3
           /\ Admits(parser.filter.dbs, parser.last_database)
           /\ Admits(parser.filter.types, next_op(parser).v)
           /\ Admits(parser.filter.keys, NewAsked[3].arg)
           /\ \A k \in 1..Len(NewEvents) :
                  /\ NewEvents[k].ev \in RecordKinds
                  /\ NewEvents[k].key = NewAsked[3].arg
    /\ (/\ parser'.status = "run"
        /\ Admits(parser.filter.dbs, parser.last_database)
        /\ Admits(parser.filter.types, next_op(parser).v)
        /\ Len(NewAsked) = 3
        /\ Admits(parser.filter.keys, NewAsked[3].arg)) => NewEvents # <<>>

\* C9: start_database(d) is emitted for SELECTDB iff matches_db(d); the
\* events of a value record are emitted iff matches_db, matches_type and
\* matches_key all hold, and none is emitted otherwise; when matches_db is
\* false the type and the key are not asked about, and when matches_type is
\* false the key is not.
C9_FilterGating ==
    [][/\ (Running(parser) /\ InLoop(OP_SELECTDB)) => SelectDbGated
       /\ (/\ Running(parser)
           /\ parser.pc = "loop"
           /\ next_op(parser).ok
           /\ next_op(parser).v \notin CONTROL_OPS) => ValueRecordGated]_vars

\* under the selective filter: a record refused for its key and emitting
\* nothing, and a record admitted and emitted
C9_Witness ==
    /\ Accepted
    /\ parser.filter = Selective
    /\ \E i \in 1..Len(parser.asked) : parser.asked[i] = Query("key", <<107>>)
    /\ \E i \in 1..Len(parser.asked) : parser.asked[i] = Query("key", <<>>)
    /\ Count("set") = 1

\* C10: when a formatter callback returns an error, parse() returns an
\* error, the failed callback is the last one invoked, and the parse is
\* never accepted.
C10_CallbackErrorAborts ==
    parser.failAt # 0 =>
        /\ parser.status = "err"
        /\ Len(Events) = parser.failAt

\* the second list_element of a list fails
C10_Witness ==
    /\ parser.failAt # 0
    /\ parser.status = "err"
    /\ Len(Events) = parser.failAt
    /\ LastEvent.ev = "list_element"
    /\ Events[Len(Events) - 1].ev = "list_element"


Stopped == parser.status # "run"

\* no EOF opcode among the opcodes the loop took up
NoEofTaken ==
    \A i \in 1..Len(parser.cursors) : OpcodeOf(i) # OP_EOF

\* the parser stands at the end of the input
InputEnded == parser.pos = Len(input)

\* C11 as stated: parse() returns Ok only when the opcode it took up last is
\* EOF; and when the input ends before an EOF opcode is taken up, parse()
\* returns an error and end_rdb is never emitted.
C11_EofOrError ==
    /\ Accepted =>
           /\ Len(parser.cursors) > 0
           /\ OpcodeOf(Len(parser.cursors)) = OP_EOF
    /\ (Stopped /\ NoEofTaken /\ InputEnded) =>
           /\ parser.status = "err"
           /\ Count("end_rdb") = 0

\* the id read by the latest SELECTDB among the first i opcodes taken up,
\* 0 when there is none
RECURSIVE SelectedUpTo(_)
SelectedUpTo(i) ==
    IF i = 0 THEN 0
    ELSE IF OpcodeOf(i) = OP_SELECTDB
    THEN read_length(input, parser.cursors[i] + 1).v
    ELSE SelectedUpTo(i - 1)

CurrentDb == SelectedUpTo(Len(parser.cursors))

\* the place of end_database in the stream of a successful parse
EndDatabaseAt ==
    IF TrailingBytes = <<>> THEN Len(Events) - 1 ELSE Len(Events) - 2

\* C12: the database id d is the id of the latest SELECTDB opcode, 0 when
\* there was none, whatever other opcodes were handled; and a successful
\* parse ends with end_database(d), end_rdb and, iff bytes follow the EOF
\* opcode, checksum of all of them, with the whole input consumed;
\* end_database is emitted exactly once, whatever the filter says about d.
C12_EofEvents ==
    /\ Proceeding => parser.last_database = CurrentDb
    /\ Accepted =>
           /\ Count("end_database") = 1
           /\ Count("end_rdb") = 1
           /\ Count("checksum") = (IF TrailingBytes = <<>> THEN 0 ELSE 1)
           /\ EndDatabaseAt >= 1
           /\ Events[EndDatabaseAt].ev = "end_database"
           /\ Events[EndDatabaseAt].n = CurrentDb
           /\ Events[EndDatabaseAt + 1].ev = "end_rdb"
           /\ TrailingBytes # <<>> =>
                  /\ LastEvent.ev = "checksum"
                  /\ LastEvent.a = TrailingBytes
           /\ parser.pos = Len(input)

\* two SELECTDB opcodes, the second for a database the filter rejects, then
\* EOF and a trailing byte
C12_Witness ==
    /\ Accepted
    /\ parser.filter = Selective
    /\ Cardinality({i \in 1..Len(parser.cursors) : OpcodeOf(i) = OP_SELECTDB}) = 2
    /\ parser.last_database = 1
    /\ Count("start_database") = 1
    /\ Events[Len(Events) - 2].n = 1
    /\ LastEvent.ev = "checksum"

FOO == <<102, 111, 111>>

BAR == <<98, 97, 114>>

\* the formatter never failed a callback of this parse
FormatterOk == parser.failAt = 0

\* the parse of the scenario under the filter that admits everything has
\* ended
ParsedAll(scenario) ==
    /\ input = scenario
    /\ parser.filter = AllowAll
    /\ FormatterOk
    /\ Stopped

EventNames == [i \in 1..Len(Events) |-> Events[i].ev]

\* C13 as stated: the parse of scenario S2 under the filter that admits
\* everything succeeds with exactly the events start_rdb, set("foo", "bar",
\* none), end_database(0), end_rdb, checksum of the eight bytes, and no
\* other event.
C13_ScenarioS2 ==
    ParsedAll(SCENARIO_S2) =>
        /\ Accepted
        /\ EventNames = <<"start_rdb", "set", "end_database", "end_rdb", "checksum">>
        /\ Events[2] = Event("set", FOO, BAR, <<>>, 0, None, NoEnc)
        /\ Events[3].n = 0
        /\ Events[5].a = CHECKSUM_8

\* C13 as amended: the parse of scenario S2 succeeds with exactly the events
\* start_rdb, start_database(0), set("foo", "bar", none), end_database(0),
\* end_rdb, checksum of the eight bytes: the SELECTDB opcode FE 00 of the
\* scenario announces the database the filter admits.
C13_ScenarioS2WithDatabase ==
    ParsedAll(SCENARIO_S2) =>
        /\ Accepted
        /\ EventNames = <<"start_rdb", "start_database", "set", "end_database",
                          "end_rdb", "checksum">>
        /\ Events[2].n = 0
        /\ Events[3] = Event("set", FOO, BAR, <<>>, 0, None, NoEnc)
        /\ Events[4].n = 0
        /\ Events[6].a = CHECKSUM_8

\* scenario S2 parsed to its end
C13_Witness ==
    /\ ParsedAll(SCENARIO_S2)
    /\ Accepted
    /\ Len(parser.cursors) = 3
    /\ Count("set") = 1

\* a u64 below 256, and 2^56 times it, as last_expiretime holds them
U64(n) == <<n, 0, 0, 0, 0, 0, 0, 0>>

U64Shifted56(n) == <<0, 0, 0, 0, 0, 0, 0, n>>

\* C14 as stated: the parse of scenario S3 succeeds and its record is
\* emitted as set("foo", "bar", Some(1)).
C14_ScenarioS3 ==
    ParsedAll(SCENARIO_S3) =>
        /\ Accepted
        /\ Count("set") = 1
        /\ \E k \in 1..Len(Events) :
               Events[k] = Event("set", FOO, BAR, <<>>, 0, U64(1), NoEnc)

\* C14 as amended: the parse of scenario S3 succeeds and its record is
\* emitted as set("foo", "bar", Some(2^56)): the field 00 00 00 00 00 00 00
\* 01 is read as a little-endian u64, whose last byte is the most
\* significant one.
C14_ScenarioS3LittleEndian ==
    ParsedAll(SCENARIO_S3) =>
        /\ Accepted
        /\ Count("set") = 1
        /\ \E k \in 1..Len(Events) :
               Events[k] = Event("set", FOO, BAR, <<>>, 0, U64Shifted56(1), NoEnc)

\* scenario S3 parsed to its end
C14_Witness ==
    /\ ParsedAll(SCENARIO_S3)
    /\ Accepted
    /\ Len(parser.cursors) = 4
    /\ OpcodeOf(2) = OP_EXPIRETIME_MS
    /\ \E k \in 1..Len(Events) : Events[k].ev = "set" /\ Events[k].exp # None

\* the blob at pos has a header with top bits 11 and a code other than
\* INT8, INT16, INT32 and LZF
UnknownEncoding(pos) ==
    /\ read_length_with_encoding(input, pos).ok
    /\ read_length_with_encoding(input, pos).enc
    /\ read_length_with_encoding(input, pos).v
           \notin {ENC_INT8, ENC_INT16, ENC_INT32, ENC_LZF}

LastCursor == parser.cursors[Len(parser.cursors)]

\* parse() has stopped in a STRING record whose value is such a blob
StoppedAtUnknownEncoding ==
    /\ Stopped
    /\ Len(parser.cursors) > 0
    /\ OpcodeOf(Len(parser.cursors)) = T_STRING
    /\ read_blob(input, LastCursor + 1).st = "ok"
    /\ UnknownEncoding(read_blob(input, LastCursor + 1).pos)

\* C15 as stated: on a blob with an unknown encoding code read_blob and
\* skip_blob fail with an error, and parse(), reading or skipping a record
\* with such a value, returns that error: it does not unwind.
C15_UnknownEncodingIsError ==
    /\ Unread =>
           \A pos \in 0..Len(input) :
               UnknownEncoding(pos) =>
                   /\ read_blob(input, pos).st = "err"
                   /\ skip_blob(Probe(pos)).status = "err"
    /\ StoppedAtUnknownEncoding => parser.status = "err"

\* the expiry opcode, among the first i opcodes taken up, that no value
\* record has followed: its place, or 0 when there is none
RECURSIVE PendingUpTo(_)
PendingUpTo(i) ==
    IF i = 0 THEN 0
    ELSE IF IsValueRecord(i) THEN 0
    ELSE IF IsExpireOp(i) THEN i
    ELSE PendingUpTo(i - 1)

PendingOp == PendingUpTo(Len(parser.cursors))

\* the n bytes behind the i-th opcode taken up
FieldOf(i, n) == SubSeq(input, parser.cursors[i] + 2, parser.cursors[i] + 1 + n)

\* long division of big-endian bytes by d, r being the remainder so far
RECURSIVE QuotBE(_, _, _)
QuotBE(be, d, r) ==
    IF be = <<>> THEN <<>>
    ELSE <<(r * 256 + be[1]) \div d>> \o QuotBE(Tail(be), d, (r * 256 + be[1]) % d)

RECURSIVE RemBE(_, _, _)
RemBE(be, d, r) ==
    IF be = <<>> THEN r ELSE RemBE(Tail(be), d, (r * 256 + be[1]) % d)

\* exp is the u64 seconds * 1000, seconds being a big-endian u32
IsMillisOf(exp, seconds) ==
    /\ Len(exp) = 8
    /\ RemBE(Reverse(exp), 1000, 0) = 0
    /\ QuotBE(Reverse(exp), 1000, 0) = <<0, 0, 0, 0>> \o seconds

\* exp is what the pending expiry opcode announces
IsPendingExpiry(exp) ==
    IF PendingOp = 0 THEN exp = None
    ELSE IF OpcodeOf(PendingOp) = OP_EXPIRETIME_MS THEN exp = FieldOf(PendingOp, 8)
    ELSE IsMillisOf(exp, FieldOf(PendingOp, 4))

\* C16: every set and start_X event of a step carries the expiry of the
\* latest expiry opcode taken up since the previous value record, whatever
\* SELECTDB, RESIZEDB and AUX opcodes came between: the eight bytes of
\* EXPIRETIME_MS as a little-endian u64, the exact product seconds * 1000
\* for EXPIRETIME; and none when no expiry opcode was taken up since.
C16_ExpiryOfRecord ==
    [][\A k \in (Len(parser.events) + 1)..Len(parser'.events) :
           parser'.events[k].ev \in {"set"} \cup StartKinds =>
               IsPendingExpiry(parser'.events[k].exp)]_vars

\* 4294967295 seconds in milliseconds
MAX_SECONDS_MS == <<24, 252, 255, 255, 231, 3, 0, 0>>

\* EXPIRETIME of 2^32 - 1 seconds, then SELECTDB, RESIZEDB and AUX, then a
\* record that carries the expiry and a record that carries none
C16_Witness ==
    /\ Accepted
    /\ parser.filter = AllowAll
    /\ Len(parser.cursors) = 7
    /\ OpcodeOf(1) = OP_EXPIRETIME
    /\ OpcodeOf(2) = OP_SELECTDB
    /\ OpcodeOf(3) = OP_RESIZEDB
    /\ OpcodeOf(4) = OP_AUX
    /\ \E k \in 1..(Len(Events) - 1) :
           /\ Events[k].ev = "set"
           /\ Events[k].exp = MAX_SECONDS_MS
           /\ Events[k + 1].ev = "set"
           /\ Events[k + 1].exp = None

\* a parser at the offset pos that holds a pending expiry and database 1
Loaded(pos) ==
    [Probe(pos) EXCEPT !.last_expiretime = U64(1), !.last_database = 1,
                       !.overflow_checks = parser.overflow_checks]

\* q is p but for the cursor and the outcome
MovedOnly(p, q) == [q EXCEPT !.pos = p.pos, !.status = p.status] = p

LifecycleKinds ==
    {"start_rdb", "end_database", "end_rdb", "checksum", "resizedb", "aux_field"}

\* C17: behind every byte of the input, taken as the tag of a record,
\* skip_object and skip_key_and_object change the cursor and nothing else:
\* no event, no filter query, the same last_expiretime and database id; so
\* the parser that skips every record emits lifecycle events only and asks
\* the filter about databases only.
C17_SkipMovesCursorOnly ==
    /\ Unread =>
           \A pos \in 1..Len(input) :
               /\ MovedOnly(Loaded(pos), skip_object(Loaded(pos), input[pos]))
               /\ MovedOnly(Loaded(pos),
                            skip_key_and_object(Loaded(pos), input[pos]))
    /\ \A k \in 1..Len(twin.events) : twin.events[k].ev \in LifecycleKinds
    /\ \A k \in 1..Len(twin.asked) : twin.asked[k].q = "db"

\* a hash record that one parser has read and the other has skipped
C17_Witness ==
    /\ Accepted
    /\ twin.status = "ok"
    /\ twin.cursors = parser.cursors
    /\ Count("hash_element") = 1
    /\ \E i \in 1..Len(twin.cursors) : input[twin.cursors[i] + 1] = T_HASH

\* the first byte of the field, the length decoded from it, and the u32 of
\* the four bytes behind it (as the i32 of the same bits)
FirstByte == input[1]

Decoded32 ==
    (IF input[2] >= 128 THEN input[2] - 256 ELSE input[2]) * 16777216
        + input[3] * 65536 + input[4] * 256 + input[5]

LengthRead == read_length_with_encoding(input, 0)

\* C18: read_length_with_encoding on a field with first byte b returns,
\* for top bits 00, (b & 0x3F, false) and consumes 1 byte; for 01,
\* (((b & 0x3F) << 8) | next byte, false), below 2^14, and consumes 2; for
\* 10, the big-endian u32 of the next four bytes, whatever the low six bits
\* of b, and consumes 5; for 11, (b & 0x3F, true) and consumes 1; and it
\* returns an error when the input ends before the field is complete.
C18_LengthDecoding ==
    parser.pc = "read_length_with_encoding" =>
        /\ (parser.status = "ok") = LengthRead.ok
        /\ LengthRead.ok => parser.pos = LengthRead.pos
        /\ IF input = <<>> THEN ~LengthRead.ok
           ELSE IF FirstByte \div 64 = 0
           THEN LengthRead = Length(TRUE, FirstByte % 64, FALSE, 1)
           ELSE IF FirstByte \div 64 = 1
           THEN IF Len(input) < 2 THEN ~LengthRead.ok
                ELSE /\ LengthRead =
                            Length(TRUE, (FirstByte % 64) * 256 + input[2], FALSE, 2)
                     /\ LengthRead.v < 16384
           ELSE IF FirstByte \div 64 = 2
           THEN IF Len(input) < 5 THEN ~LengthRead.ok
                ELSE LengthRead = Length(TRUE, Decoded32, FALSE, 5)
           ELSE LengthRead = Length(TRUE, FirstByte % 64, TRUE, 1)

\* a 32-bit length of 2^31 behind a first byte with low bits set
C18_Witness ==
    /\ parser.pc = "read_length_with_encoding"
    /\ input = <<191, 128, 0, 0, 0>>
    /\ parser.status = "ok"
    /\ parser.pos = 5
    /\ LengthRead.v < 0

\* the entry decoded from a field <<previous length, flag, ...>>
EntryRead == read_ziplist_entry(input, 0)

\* the three bytes behind the flag 0xF0, as a 24-bit little-endian number
\* sign-extended from bit 23
SignExtended24 ==
    (IF input[5] >= 128 THEN input[5] - 256 ELSE input[5]) * 65536
        + input[4] * 256 + input[3]

IsInt24Entry ==
    /\ parser.pc = "read_ziplist_entry"
    /\ Len(input) >= 5
    /\ input[1] # 254
    /\ input[2] = 240

\* C20: for an entry with flag byte 0xF0 read_ziplist_entry consumes the
\* three bytes b0 b1 b2 behind the flag and returns Number(v), v being
\* b0 | b1 << 8 | b2 << 16 sign-extended from bit 23, between -2^23 and
\* 2^23 - 1, for every combination of the bytes: the constant 48 of the
\* XOR is shifted out.
C20_Int24Entry ==
    IsInt24Entry =>
        /\ EntryRead = Entry("ok", TRUE, SignExtended24, 5)
        /\ EntryRead.v >= -8388608
        /\ EntryRead.v <= 8388607
        /\ parser.status = "ok"
        /\ parser.pos = 5

\* the entry F0 30 FF 80: bits of the constant 48 in b0, a negative number
C20_Witness ==
    /\ IsInt24Entry
    /\ input = <<0, 240, 48, 255, 128>>
    /\ EntryRead.number
    /\ EntryRead.v = -8323280

\* n blobs skipped one after the other
RECURSIVE BlobsSkipped(_, _)
BlobsSkipped(p, n) ==
    IF n = 0 \/ ~Running(p) THEN p ELSE BlobsSkipped(skip_blob(p), n - 1)

\* n times a blob and eight bytes
RECURSIVE ScoredBlobsSkipped(_, _)
ScoredBlobsSkipped(p, n) ==
    IF n = 0 \/ ~Running(p) THEN p
    ELSE ScoredBlobsSkipped(skip(skip_blob(p), 8), n - 1)

\* a count of blobs no input holds: each blob takes a byte at least
TooMany == Len(input) + 1

\* factor * L blobs for the u32 L, as many as can matter (L < 0 is a word
\* of 2^31 or more)
Declared(L, factor) ==
    IF L < 0 \/ L > Len(input) THEN TooMany ELSE factor * L

\* the parser behind the tag at pos and the key that follows it
ObjectAt(pos) == skip_blob(Loaded(pos))

\* the length prefix of the object
PrefixAt(pos) == read_length(input, ObjectAt(pos).pos)

BehindPrefix(pos) == At(ObjectAt(pos), PrefixAt(pos).pos)

\* C19 as stated: for every byte of the input with a key behind it, taken
\* as the tag of a record, skip_object does behind the key what skipping
\* the declared blobs one by one does: L blobs for LIST, SET and
\* LIST_QUICKLIST and 2 * L blobs for ZSET and HASH, L being the length
\* prefix, also when L is 2^31 or more; L times a blob and eight bytes for
\* ZSET_2; one blob for STRING and the wrapped encodings.
C19_SkipsDeclaredBlobs ==
    Unread =>
        \A pos \in 1..Len(input) :
            Running(ObjectAt(pos)) =>
                IF input[pos] \in {T_LIST, T_SET, T_LIST_QUICKLIST}
                THEN PrefixAt(pos).ok =>
                         skip_object(ObjectAt(pos), input[pos])
                             = BlobsSkipped(BehindPrefix(pos),
                                            Declared(PrefixAt(pos).v, 1))
                ELSE IF input[pos] \in {T_ZSET, T_HASH}
                THEN PrefixAt(pos).ok =>
                         skip_object(ObjectAt(pos), input[pos])
                             = BlobsSkipped(BehindPrefix(pos),
                                            Declared(PrefixAt(pos).v, 2))
                ELSE IF input[pos] = T_ZSET_2
                THEN PrefixAt(pos).ok =>
                         skip_object(ObjectAt(pos), input[pos])
                             = ScoredBlobsSkipped(BehindPrefix(pos),
                                                  Declared(PrefixAt(pos).v, 1))
                ELSE input[pos] \in {T_STRING, T_HASH_ZIPMAP, T_LIST_ZIPLIST,
                                     T_SET_INTSET, T_ZSET_ZIPLIST,
                                     T_HASH_ZIPLIST} =>
                         skip_object(ObjectAt(pos), input[pos])
                             = BlobsSkipped(ObjectAt(pos), 1)

\* the entries of a ziplist, walked by hand: what they hold, and whether
\* all of them were there with the byte 0xFF behind them
Walk(elems, whole) == [elems |-> elems, whole |-> whole]

Before(v, w) == Walk(<<v>> \o w.elems, w.whole)

RECURSIVE EntriesFrom(_, _, _)
EntriesFrom(z, r, n) ==
    IF n = 0 THEN Walk(<<>>, r < Len(z) /\ z[r + 1] = 255)
    ELSE IF read_ziplist_entry_string(z, r).st # "ok" THEN Walk(<<>>, FALSE)
    ELSE Before(read_ziplist_entry_string(z, r).v,
                EntriesFrom(z, read_ziplist_entry_string(z, r).pos, n - 1))

EntriesOf(z) ==
    IF Len(z) < 10 THEN Walk(<<>>, FALSE)
    ELSE EntriesFrom(z, 10, z[9] + 256 * z[10])

Joined(w, rest) ==
    IF w.whole THEN Walk(w.elems \o rest.elems, rest.whole) ELSE w

\* the entries of k ziplists from the offset pos on, up to the first
\* ziplist that is cut short or not ended by 0xFF
RECURSIVE ZiplistsFrom(_, _)
ZiplistsFrom(pos, k) ==
    IF k = 0 THEN Walk(<<>>, TRUE)
    ELSE IF read_blob(input, pos).st # "ok" THEN Walk(<<>>, FALSE)
    ELSE IF ~EntriesOf(read_blob(input, pos).v).whole
    THEN EntriesOf(read_blob(input, pos).v)
    ELSE Joined(EntriesOf(read_blob(input, pos).v),
                ZiplistsFrom(read_blob(input, pos).pos, k - 1))

\* the key of the record the parser stands at, and the quicklist behind it
KeyHere == read_blob(input, parser.pos + 1)

QuicklistHere ==
    ZiplistsFrom(read_length(input, KeyHere.pos).pos,
                 read_length(input, KeyHere.pos).v)

\* the parser stands at a LIST_QUICKLIST record that the filter admits
\* and whose count of ziplists can be read
AtQuicklist ==
    /\ Running(parser)
    /\ parser.pc = "loop"
    /\ next_op(parser).ok
    /\ next_op(parser).v = T_LIST_QUICKLIST
    /\ Admits(parser.filter.dbs, parser.last_database)
    /\ KeyHere.st = "ok"
    /\ Admits(parser.filter.types, T_LIST_QUICKLIST)
    /\ Admits(parser.filter.keys, KeyHere.v)
    /\ read_length(input, KeyHere.pos).ok

\* C21: the step that reads a LIST_QUICKLIST record of k ziplists emits,
\* when the formatter fails no callback, one container start event with
\* count 0 and encoding Quicklist, then one list_element per entry in the
\* order of the entries on disk, ziplist after ziplist, then one container
\* end event; and when a ziplist is cut short or not ended by 0xFF it
\* emits no entry of a later ziplist and no end event, and does not go on.
C21_QuicklistEvents ==
    [][(AtQuicklist /\ parser'.failAt = 0) =>
           /\ Len(NewEvents) >= 1 + Len(QuicklistHere.elems)
           /\ NewEvents[1].ev \in StartKinds
           /\ NewEvents[1].key = KeyHere.v
           /\ NewEvents[1].n = 0
           /\ NewEvents[1].enc[1] = "Quicklist"
           /\ \A i \in 1..Len(QuicklistHere.elems) :
                  NewEvents[i + 1] =
                      Element("list_element", KeyHere.v, QuicklistHere.elems[i],
                              <<>>)
           /\ IF QuicklistHere.whole
              THEN /\ Len(NewEvents) = Len(QuicklistHere.elems) + 2
                   /\ NewEvents[Len(NewEvents)].ev \in EndKinds
                   /\ NewEvents[Len(NewEvents)].key = KeyHere.v
                   /\ parser'.status = "run"
              ELSE /\ Len(NewEvents) = Len(QuicklistHere.elems) + 1
                   /\ parser'.status # "run"]_vars

\* a quicklist of two ziplists, of two entries and of one, read to its end
C21_Witness ==
    /\ Accepted
    /\ parser.filter = AllowAll
    /\ Len(parser.cursors) = 2
    /\ OpcodeOf(1) = T_LIST_QUICKLIST
    /\ EventNames = <<"start_rdb", "start_set", "list_element", "list_element",
                      "list_element", "end_set", "end_database", "end_rdb">>
    /\ Events[3].a = <<49>>
    /\ Events[4].a = <<97>>
    /\ Events[5].a = <<98>>
    /\ Len(parser.after) = 2
    /\ \A i \in 1..2 : parser.after[i] = [reader |-> "quicklist_ziplist", byte |-> 255]

\* parse() has returned Ok or Err
Returned == parser.status \in {"ok", "err"}

\* parse() has returned or has unwound
Ended == parser.status \in {"ok", "err", "panic"}

\* C22 as stated: on every input parse() ends, and it ends by returning
\* Ok, behind an EOF opcode, or by returning an error.
C22_EndsInOkOrError == <>Returned

\* parse() ends on every input, by returning or by unwinding
ParseEnds == <>Ended

\* a turn of the opcode loop that leaves parse() running has consumed at
\* least the opcode byte
OpcodeTurnConsumes ==
    [][(parser.pc = "loop" /\ Running(parser'))
           => parser'.pos > parser.pos]_vars

\* the turn has moved the cursor forward, or has ended the parse
Consumed(p, pos) == Running(p) => p.pos > pos

\* one turn of each counted loop over the input, from each offset of the
\* input: it consumes a byte or it fails, and at the end of the input it
\* fails
CountedTurnsConsume ==
    (Unread /\ parser.filter = AllowAll /\ ~parser.overflow_checks) =>
        \A pos \in 0..Len(input) :
            /\ Consumed(linked_list_loop(Probe(pos), <<>>, 1), pos)
            /\ Consumed(sorted_set_type_2_loop(Probe(pos), <<>>, 1), pos)
            /\ Consumed(sorted_set_loop(Probe(pos), <<>>, 1), pos)
            /\ Consumed(hash_loop(Probe(pos), <<>>, 1), pos)
            /\ Consumed(quicklist_loop(Probe(pos), <<>>, 1), pos)
            /\ Consumed(skip_blobs(Probe(pos), 1), pos)
            /\ Consumed(skip_zset_2(Probe(pos), 1), pos)

\* the turns of the loops over a blob, from each offset of each blob of the
\* input: a turn of a ziplist loop consumes a byte of the blob or fails,
\* and the intset loop (at the entry widths 2 and 4) and the zipmap loop,
\* which emit an element in every turn that goes on, emit no more
\* elements than bytes are left
BlobTurnsConsume ==
    (Unread /\ parser.filter = AllowAll /\ ~parser.overflow_checks) =>
        \A pos \in 0..Len(input) :
            read_blob(input, pos).st = "ok" =>
                \A r \in 0..Len(read_blob(input, pos).v) :
                    Let(read_blob(input, pos).v, LAMBDA z :
                        /\ Let(list_ziplist_loop(Sub(Probe(pos), r), <<>>, z, 1),
                               LAMBDA s : Running(s.p) => s.r > r)
                        /\ Let(hash_ziplist_loop(Sub(Probe(pos), r), <<>>, z, 1),
                               LAMBDA s : Running(s.p) => s.r > r)
                        /\ Let(sortedset_ziplist_loop(Sub(Probe(pos), r), <<>>, z, 1),
                               LAMBDA s : Running(s.p) => s.r > r)
                        /\ \A byte_size \in {2, 4} :
                               Len(set_intset_loop(Sub(Probe(pos), r), <<>>, z,
                                                   byte_size, Len(z) + 1).events)
                                   <= Len(z) - r
                        /\ \A length \in {-1, 1, 254} :
                               Len(hash_zipmap_loop(Sub(Probe(pos), r), <<>>, z,
                                                    length).events)
                                   <= Len(z) - r)
====
